---------------------------- MODULE Spec2Model ----------------------------
(***************************************************************************)
(* Decision ledger of ZingSignals (src/evaluation.js) together with the    *)
(* rolling window of the metrics consumer SystemState                      *)
(* (src/unnamed/part_000) that evaluateDecision forwards to.               *)
(*                                                                         *)
(* Every exported function runs to completion on the single JavaScript     *)
(* thread, so each one is a single action.  Date.now() is the variable     *)
(* now; it is read once per call and moves only in Tick.                   *)
(*                                                                         *)
(* JavaScript numbers are modelled as tagged records: a finite number is   *)
(* an exact fraction n/d in lowest terms with d > 0, next to NaN,          *)
(* +Infinity, -Infinity, undefined and a function value (what a lookup of  *)
(* an inherited key such as "constructor" in an object literal yields).    *)
(* On the integer price grids used here the IEEE-754 evaluation of         *)
(* ((f - c) / c) * 100 falls on the same side of +-0.1 as the fraction.    *)
(***************************************************************************)
EXTENDS Integers, Sequences, FiniteSets, TLC

VARIABLES
    decisionHistory,   \* evaluation.js: let decisionHistory = []
    decisionWindow,    \* SystemState: let decisionWindow = []
    systemStatePresent,\* typeof window !== 'undefined' && window.SystemState
    systemStateThrows, \* window.SystemState.recordDecision ends in an exception
    now,               \* Date.now()
    call,              \* the last call made by the host and what it returned
    recorded,          \* number of recordDecision calls made so far
    forwarded,         \* per decision: records forwarded to SystemState for it
    ticks,             \* number of clock steps taken so far
    arrivals,          \* records SystemState accepted since its last reset, in order
    heap               \* the objects of the host that a payload refers to

vars == <<decisionHistory, decisionWindow, systemStatePresent, systemStateThrows,
          now, call, recorded, forwarded, ticks, arrivals, heap>>

-----------------------------------------------------------------------------
(* Bounds of the model *)

MaxRecords == 2
MaxTicks == 2
MaxCapRecords == 1002
MaxClassifyRecords == 1
MaxHorizonRecords == 2
MaxStatsRecords == 4
MaxStatsTicks == 1
MaxReadRecords == 3
MaxCandles == 16
MaxWindowRecords == 52
MaxSnapshotRecords == 2
MaxMetricsRecords == 6
MaxAtomicRecords == 3
MaxConfidenceRecords == 2
MaxConfidenceTicks == 1
MaxShortCandles == 16
MaxRSICloses == 50
MaxLongCandles == 61

(* Program constants *)

HISTORY_CAP == 1000
WINDOW_SIZE == 50

-----------------------------------------------------------------------------
(* JavaScript values *)

\* A local constant of the code (const x = e; ... x ...) is written
\* CHOOSE r \in {... x ... : x \in {e}} : TRUE, which evaluates e once.

RECURSIVE Gcd(_, _)
Gcd(a, b) == IF b = 0 THEN a ELSE Gcd(b, a % b)

Abs(x) == IF x < 0 THEN -x ELSE x

Rat(n, d) ==
    LET s == IF d < 0 THEN -1 ELSE 1
        g == Gcd(Abs(n), Abs(d))
    IN  [k |-> "num", n |-> (s * n) \div g, d |-> (s * d) \div g]

Num(n) == [k |-> "num", n |-> n, d |-> 1]
NaN == [k |-> "nan"]
PosInf == [k |-> "inf"]
NegInf == [k |-> "ninf"]
Undefined == [k |-> "undef"]
FunctionValue == [k |-> "function"]

IsNum(x) == x.k = "num"

\* ToBoolean(x), as used by x || y
Truthy(x) ==
    CASE x.k = "num" -> x.n # 0
      [] x.k = "nan" -> FALSE
      [] x.k = "undef" -> FALSE
      [] x.k = "null" -> FALSE
      [] OTHER -> TRUE

JsOr(x, y) == IF Truthy(x) THEN x ELSE y

\* x * m for a positive integer m
JsTimes(x, m) ==
    CASE x.k = "num" -> Rat(x.n * m, x.d)
      [] x.k = "inf" -> PosInf
      [] x.k = "ninf" -> NegInf
      [] OTHER -> NaN

\* (a / b) for integers a, b
JsDivInt(a, b) ==
    IF b # 0 THEN Rat(a, b)
    ELSE IF a > 0 THEN PosInf
    ELSE IF a < 0 THEN NegInf
    ELSE NaN

JsNeg(x) ==
    CASE x.k = "num" -> [x EXCEPT !.n = -x.n]
      [] x.k = "inf" -> NegInf
      [] x.k = "ninf" -> PosInf
      [] OTHER -> NaN

\* x > y on numbers: false whenever an operand is NaN
JsGt(x, y) ==
    CASE x.k \in {"nan", "undef", "function"} -> FALSE
      [] y.k \in {"nan", "undef", "function"} -> FALSE
      [] x.k = "inf" -> y.k # "inf"
      [] x.k = "ninf" -> FALSE
      [] y.k = "inf" -> FALSE
      [] y.k = "ninf" -> TRUE
      [] OTHER -> LET g == Gcd(x.d, y.d)
                  IN  x.n * (y.d \div g) > y.n * (x.d \div g)

JsLt(x, y) == JsGt(y, x)

JsEq(x, y) ==
    /\ x.k \in {"num", "inf", "ninf"}
    /\ x = y

JsGe(x, y) == JsGt(x, y) \/ JsEq(x, y)

\* null, as an array element (calculateEMAArray)
Null == [k |-> "null"]

\* ToNumber on the values that reach an arithmetic operator here
ToNumber(x) == IF x.k \in {"undef", "function"} THEN NaN ELSE x

\* Number.isFinite(x)
IsFinite(x) == x.k = "num"

Sign(n) == IF n > 0 THEN 1 ELSE IF n < 0 THEN -1 ELSE 0

\* x + y.  The sign of a zero is not kept: no result of the code below
\* depends on it except through 1 / -0, which does not occur.
JsAdd(x, y) ==
    LET a == ToNumber(x)
        b == ToNumber(y)
    IN  CASE a.k = "nan" \/ b.k = "nan" -> NaN
          [] a.k = "inf" -> IF b.k = "ninf" THEN NaN ELSE PosInf
          [] a.k = "ninf" -> IF b.k = "inf" THEN NaN ELSE NegInf
          [] b.k \in {"inf", "ninf"} -> b
          [] OTHER -> LET g == Gcd(a.d, b.d)
                      IN  Rat(a.n * (b.d \div g) + b.n * (a.d \div g),
                              (a.d \div g) * b.d)

\* x - y
JsSub(x, y) == JsAdd(x, JsNeg(ToNumber(y)))

\* x * y
JsMul(x, y) ==
    LET a == ToNumber(x)
        b == ToNumber(y)
        sa == IF a.k = "num" THEN Sign(a.n) ELSE IF a.k = "inf" THEN 1 ELSE -1
        sb == IF b.k = "num" THEN Sign(b.n) ELSE IF b.k = "inf" THEN 1 ELSE -1
    IN  CASE a.k = "nan" \/ b.k = "nan" -> NaN
          [] a.k = "num" /\ b.k = "num" ->
                LET g == Gcd(Abs(a.n), b.d)
                    h == Gcd(Abs(b.n), a.d)
                IN  Rat((a.n \div g) * (b.n \div h), (a.d \div h) * (b.d \div g))
          [] sa * sb = 0 -> NaN
          [] sa * sb > 0 -> PosInf
          [] OTHER -> NegInf

\* x / y
JsDiv(x, y) ==
    LET a == ToNumber(x)
        b == ToNumber(y)
        sa == IF a.k = "num" THEN Sign(a.n) ELSE IF a.k = "inf" THEN 1 ELSE -1
    IN  CASE a.k = "nan" \/ b.k = "nan" -> NaN
          [] a.k = "num" /\ b.k = "num" ->
                IF b.n # 0
                THEN LET g == Gcd(Abs(a.n), Abs(b.n))
                         h == Gcd(a.d, b.d)
                     IN  Rat((a.n \div g) * (b.d \div h), (a.d \div h) * (b.n \div g))
                ELSE IF sa > 0 THEN PosInf
                ELSE IF sa < 0 THEN NegInf
                ELSE NaN
          [] a.k = "num" -> Num(0)
          [] b.k # "num" -> NaN
          [] (IF b.n < 0 THEN -sa ELSE sa) > 0 -> PosInf
          [] OTHER -> NegInf

\* Math.abs(x)
JsAbs(x) ==
    LET a == ToNumber(x)
    IN  CASE a.k = "num" -> [a EXCEPT !.n = Abs(a.n)]
          [] a.k \in {"inf", "ninf"} -> PosInf
          [] OTHER -> NaN

\* Math.max(a, b) and Math.min(a, b)
JsMax2(x, y) ==
    LET a == ToNumber(x)
        b == ToNumber(y)
    IN  IF a.k = "nan" \/ b.k = "nan" THEN NaN
        ELSE IF JsGt(b, a) THEN b ELSE a

JsMin2(x, y) ==
    LET a == ToNumber(x)
        b == ToNumber(y)
    IN  IF a.k = "nan" \/ b.k = "nan" THEN NaN
        ELSE IF JsLt(b, a) THEN b ELSE a

\* Math.max(...arr) and Math.min(...arr): -Infinity and Infinity when empty
RECURSIVE JsMaxOf(_)
JsMaxOf(arr) ==
    IF Len(arr) = 0 THEN NegInf
    ELSE CHOOSE max \in
             { JsMax2(sofar, arr[Len(arr)])
               : sofar \in {JsMaxOf(SubSeq(arr, 1, Len(arr) - 1))} } : TRUE

RECURSIVE JsMinOf(_)
JsMinOf(arr) ==
    IF Len(arr) = 0 THEN PosInf
    ELSE CHOOSE min \in
             { JsMin2(sofar, arr[Len(arr)])
               : sofar \in {JsMinOf(SubSeq(arr, 1, Len(arr) - 1))} } : TRUE

\* arr.reduce((a, b) => a + b, 0).  The sum is taken by halves to keep the
\* evaluation shallow; its value is that of the fold from the left, addition
\* being associative on the exact values used here (NaN absorbs, and so does
\* an infinity unless its opposite is met, which gives NaN in any order).
RECURSIVE JsSum(_)
JsSum(arr) ==
    IF Len(arr) = 0 THEN Num(0)
    ELSE IF Len(arr) = 1 THEN JsAdd(Num(0), arr[1])
    ELSE CHOOSE sum \in
             { JsAdd(left, right)
               : left \in {JsSum(SubSeq(arr, 1, Len(arr) \div 2))},
                 right \in {JsSum(SubSeq(arr, Len(arr) \div 2 + 1, Len(arr)))} } : TRUE

\* arr[i] for a 0-based index i: undefined outside the array
At(arr, i) == IF i >= 0 /\ i < Len(arr) THEN arr[i + 1] ELSE Undefined

\* arr.slice(start, end) for 0-based integers, negative ones counting from
\* the end
Slice(arr, start, end) ==
    LET from == IF start < 0
                THEN (IF Len(arr) + start > 0 THEN Len(arr) + start ELSE 0)
                ELSE (IF start < Len(arr) THEN start ELSE Len(arr))
        to == IF end < 0
              THEN (IF Len(arr) + end > 0 THEN Len(arr) + end ELSE 0)
              ELSE (IF end < Len(arr) THEN end ELSE Len(arr))
    IN  SubSeq(arr, from + 1, to)

-----------------------------------------------------------------------------
(* evaluation.js *)

NoEvaluation == [isNull |-> TRUE]

InheritedKeys == {"constructor"}

\* horizonMap[timeframe]: own keys, then Object.prototype
HorizonMapLookup(timeframe) ==
    CASE timeframe = "1m" -> Num(3)
      [] timeframe = "5m" -> Num(15)
      [] timeframe = "15m" -> Num(45)
      [] timeframe = "1h" -> Num(180)
      [] timeframe \in InheritedKeys -> FunctionValue
      [] OTHER -> Undefined

getEvaluationHorizon(timeframe) == JsOr(HorizonMapLookup(timeframe), Num(5))

\* decisionData.evaluationHorizon || (horizonMinutes * 60 * 1000)
EvaluationHorizonOf(decisionData) ==
    JsOr(decisionData.evaluationHorizon,
         JsTimes(JsTimes(getEvaluationHorizon(decisionData.timeframe), 60), 1000))

\* A payload names its indicators and its marketContext by reference, as
\* JavaScript passes objects; the objects themselves are in heap, a field of
\* an object holding a value or a reference to another object.

Ref(id) == [k |-> "ref", id |-> id]
Str(s) == [k |-> "str", s |-> s]

\* the analysis result the host passes on: indicators.rsi is an object of
\* its own, indicators.atr and the fields of marketContext are values
InitialHeap ==
    [ id \in {"indicators", "rsi", "marketContext"} |->
        CASE id = "indicators" -> [rsi |-> Ref("rsi"), atr |-> Num(2)]
          [] id = "rsi" -> [value |-> Num(50)]
          [] id = "marketContext" ->
                 [ totalScore |-> Num(30), marketRegime |-> Str("uptrend"),
                   relativeVolatility |-> Num(1) ] ]

\* { ...decisionData.<field> }: a new object with the own fields of the
\* source, each holding what the source holds, a reference staying a
\* reference to the same object; {} when the field is undefined
SpreadCopy(decisionData, field) ==
    IF field \in DOMAIN decisionData
    THEN heap[decisionData[field].id]
    ELSE <<>>

NewDecision(decisionData, serial) ==
    [ serial |-> serial,
      timestamp |-> now,
      direction |-> decisionData.direction,
      confidence |-> decisionData.confidence,
      currentPrice |-> decisionData.currentPrice,
      indicators |-> SpreadCopy(decisionData, "indicators"),
      timeframe |-> decisionData.timeframe,
      marketContext |-> SpreadCopy(decisionData, "marketContext"),
      evaluationHorizon |-> EvaluationHorizonOf(decisionData),
      status |-> "pending",
      evaluation |-> NoEvaluation,
      trail |-> <<"pending">> ]

\* mutant: on overflow the first 1000 are kept (slice(0, 1000))
PushAndTruncate_KeepsOldest(history, decision) ==
    LET pushed == Append(history, decision)
    IN  IF Len(pushed) > HISTORY_CAP THEN SubSeq(pushed, 1, HISTORY_CAP) ELSE pushed

\* push, then keep the last 1000
PushAndTruncate(history, decision) ==
    LET pushed == Append(history, decision)
    IN  IF Len(pushed) > HISTORY_CAP THEN Slice(pushed, -HISTORY_CAP, Len(pushed))
        ELSE pushed

\* decision.confidence.toFixed(0) in the log line after the push: a TypeError
\* unless confidence is a number (NaN and the infinities are numbers)
RecordLogThrows(decisionData) ==
    decisionData.confidence.k \notin {"num", "nan", "inf", "ninf"}

\* recordDecision(decisionData); without a payload the first statement
\* (decisionData.timeframe) ends the call in a TypeError
RecordDecision(decisionData) ==
    IF decisionData \in {Undefined, Null}
    THEN /\ call' = [op |-> "recordDecision", arg |-> decisionData,
                     ret |-> "TypeError"]
         /\ UNCHANGED <<decisionHistory, decisionWindow, arrivals, heap,
                        systemStatePresent, systemStateThrows, now, recorded,
                        forwarded, ticks>>
    ELSE /\ decisionHistory' =
                PushAndTruncate(decisionHistory,
                                NewDecision(decisionData, recorded + 1))
         /\ recorded' = recorded + 1
         /\ forwarded' = forwarded @@ ((recorded + 1) :> 0)
         /\ call' = [op |-> "recordDecision", arg |-> decisionData,
                     ret |-> IF RecordLogThrows(decisionData) THEN "TypeError"
                             ELSE "undefined"]
         /\ UNCHANGED <<decisionWindow, arrivals, heap, systemStatePresent,
                        systemStateThrows, now, ticks>>

\* the recording numbers of the decisions of a history
Serials(history) == {history[i].serial : i \in 1..Len(history)}

\* mutant: the subtraction the wrong way round
isDecisionReady_NegativeElapsed(decision, currentTime) ==
    LET timeElapsed == decision.timestamp - currentTime
    IN  JsGe(Num(timeElapsed), decision.evaluationHorizon)

\* mutant: the horizon boundary excluded (> for >=)
isDecisionReady_Strict(decision, currentTime) ==
    LET timeElapsed == currentTime - decision.timestamp
    IN  JsGt(Num(timeElapsed), decision.evaluationHorizon)

isDecisionReady(decision, currentTime) ==
    LET timeElapsed == currentTime - decision.timestamp
    IN  JsGe(Num(timeElapsed), decision.evaluationHorizon)

SetStatus(decision, status) ==
    [decision EXCEPT !.status = status, !.trail = Append(@, status)]

\* mutant: a due decision is marked evaluated at once
AdvanceOne_SkipsReady(decision, currentTime) ==
    IF decision.status = "pending" /\ isDecisionReady(decision, currentTime)
    THEN SetStatus(decision, "evaluated")
    ELSE decision

AdvanceOne(decision, currentTime) ==
    IF decision.status = "pending" /\ isDecisionReady(decision, currentTime)
    THEN SetStatus(decision, "ready")
    ELSE decision

updateDecisionStatuses(history, currentTime) ==
    [i \in 1..Len(history) |-> AdvanceOne(history[i], currentTime)]

\* ((futurePrice - decision.currentPrice) / decision.currentPrice) * 100
PriceChange(decision, futurePrice) ==
    JsTimes(JsDivInt(futurePrice - decision.currentPrice, decision.currentPrice), 100)

Threshold == Rat(1, 10)

\* mutant: the comparisons include the threshold (>= and <=)
Classify_Inclusive(direction, priceChange) ==
    IF direction = "BUY" THEN
        IF JsGe(priceChange, Threshold) THEN "correct"
        ELSE IF JsGe(JsNeg(Threshold), priceChange) THEN "incorrect"
        ELSE "neutral"
    ELSE IF direction = "SELL" THEN
        IF JsGe(JsNeg(Threshold), priceChange) THEN "correct"
        ELSE IF JsGe(priceChange, Threshold) THEN "incorrect"
        ELSE "neutral"
    ELSE "neutral"

Classify(direction, priceChange) ==
    IF direction = "BUY" THEN
        IF JsGt(priceChange, Threshold) THEN "correct"
        ELSE IF JsLt(priceChange, JsNeg(Threshold)) THEN "incorrect"
        ELSE "neutral"
    ELSE IF direction = "SELL" THEN
        IF JsLt(priceChange, JsNeg(Threshold)) THEN "correct"
        ELSE IF JsGt(priceChange, Threshold) THEN "incorrect"
        ELSE "neutral"
    ELSE "neutral"

\* mutant: the guard lets pending decisions through
EvaluationEligible_PendingToo(decision) == decision.status \in {"pending", "ready"}

\* mutant: the guard lets evaluated decisions through
EvaluationEligible_EvaluatedToo(decision) == decision.status \in {"ready", "evaluated"}

EvaluationEligible(decision) == decision.status = "ready"

\* mutant: the evaluation record is attached, the status is not set
Evaluated_StatusNotSet(decision, futurePrice) ==
    CHOOSE after \in
        { [decision EXCEPT
            !.evaluation = [ result |-> Classify(decision.direction, priceChange),
                             futurePrice |-> futurePrice,
                             priceChange |-> priceChange,
                             evaluatedAt |-> now ]]
          : priceChange \in {PriceChange(decision, futurePrice)} } : TRUE

\* the decision after lines 146-153
Evaluated(decision, futurePrice) ==
    CHOOSE after \in
        { [SetStatus(decision, "evaluated") EXCEPT
            !.evaluation = [ result |-> Classify(decision.direction, priceChange),
                             futurePrice |-> futurePrice,
                             priceChange |-> priceChange,
                             evaluatedAt |-> now ]]
          : priceChange \in {PriceChange(decision, futurePrice)} } : TRUE

-----------------------------------------------------------------------------
(* SystemState *)

\* A payload is a record of the fields the caller set; a field left out is
\* absent from the record.  A call without a payload passes Undefined.

\* data.<field> || fallback, for a string field ('' is falsy, as is undefined)
StringFieldOr(data, field, fallback) ==
    IF field \in DOMAIN data /\ data[field] # "" THEN data[field] ELSE fallback

\* data.<field> || 0, for a number field
NumberFieldOr(data, field) ==
    IF field \in DOMAIN data THEN JsOr(data[field], Num(0)) ELSE Num(0)

\* !data || data.success === undefined
InvalidPayload(data) ==
    \/ data \in {Undefined, Null}
    \/ "success" \notin DOMAIN data

WindowEntry(data) ==
    [ timeframe |-> StringFieldOr(data, "timeframe", "unknown"),
      direction |-> StringFieldOr(data, "direction", "NEUTRAL"),
      success |-> data.success,
      return |-> NumberFieldOr(data, "return"),
      confidence |-> NumberFieldOr(data, "confidence"),
      timestamp |-> IF "timestamp" \in DOMAIN data /\ data.timestamp # 0
                    THEN data.timestamp ELSE now ]

\* mutant: a full window turns the new entry away
PushAndShift_DropsNewest(window, entry) ==
    IF Len(window) >= WINDOW_SIZE THEN window ELSE Append(window, entry)

\* push, then shift() once when longer than WINDOW_SIZE
PushAndShift(window, entry) ==
    CHOOSE after \in
        { IF Len(pushed) > WINDOW_SIZE THEN Tail(pushed) ELSE pushed
          : pushed \in {Append(window, entry)} } : TRUE

\* mutant: an invalid payload empties the window
SystemStateRecord_ResetsOnInvalid(window, data) ==
    IF InvalidPayload(data) THEN <<>>
    ELSE PushAndShift(window, WindowEntry(data))

\* SystemState.recordDecision(data): the window after the call
SystemStateRecord(window, data) ==
    IF InvalidPayload(data) THEN window
    ELSE PushAndShift(window, WindowEntry(data))

ValidPayload(data) == ~InvalidPayload(data)

\* the entries SystemState builds for the payloads it accepts, in order
AcceptedEntries(payloads) ==
    LET valid == SelectSeq(payloads, ValidPayload)
    IN  [n \in 1..Len(valid) |-> WindowEntry(valid[n])]

\* SystemState.recordDecision called by the host
SystemStateRecordDecision(data) ==
    /\ systemStatePresent /\ ~systemStateThrows
    /\ decisionWindow' = SystemStateRecord(decisionWindow, data)
    /\ arrivals' = arrivals \o AcceptedEntries(<<data>>)
    /\ call' = [op |-> "SystemState.recordDecision", data |-> data,
                ret |-> "undefined"]
    /\ UNCHANGED <<decisionHistory, heap, systemStatePresent, systemStateThrows, now,
                   recorded, forwarded, ticks>>

\* SystemState.reset
SystemStateReset ==
    /\ systemStatePresent /\ ~systemStateThrows
    /\ decisionWindow' = <<>>
    /\ arrivals' = <<>>
    /\ call' = [op |-> "SystemState.reset", ret |-> "undefined"]
    /\ UNCHANGED <<decisionHistory, heap, systemStatePresent, systemStateThrows, now,
                   recorded, forwarded, ticks>>

\* the loop of calculateConsecutiveErrors, from index i down to the first
\* entry whose success is not false
RECURSIVE ErrorsLoop(_, _, _, _)
ErrorsLoop(window, i, current, max) ==
    IF i < 1 THEN [current |-> current, max |-> max]
    ELSE IF window[i].success = FALSE
         THEN ErrorsLoop(window, i - 1, current + 1,
                         IF max > current + 1 THEN max ELSE current + 1)
         ELSE [current |-> current, max |-> max]

\* mutant: every failed entry of the window counts, wherever it is
calculateConsecutiveErrors_CountsAll(window) ==
    [ current |-> Cardinality({i \in DOMAIN window : window[i].success = FALSE}),
      max |-> Cardinality({i \in DOMAIN window : window[i].success = FALSE}) ]

calculateConsecutiveErrors(window) == ErrorsLoop(window, Len(window), 0, 0)

\* updateMetrics(): every metric is computed from the whole window
updateMetrics(window) ==
    CHOOSE metrics \in
        { [ totalDecisions |-> Len(window),
            recentAccuracy |->
                IF Len(window) = 0 THEN Num(0)
                ELSE JsTimes(JsDivInt(Cardinality({i \in DOMAIN window :
                                                     window[i].success = TRUE}),
                                      Len(window)), 100),
            recentWinRate |->
                IF Len(window) = 0 THEN Num(0)
                ELSE JsTimes(JsDivInt(Cardinality({i \in DOMAIN window :
                                                     JsGt(window[i].return, Num(0))}),
                                      Len(window)), 100),
            avgConfidence |->
                IF Len(window) = 0 THEN Num(0)
                ELSE JsDiv(JsSum([i \in DOMAIN window |->
                                    JsOr(window[i].confidence, Num(0))]),
                           Num(Len(window))),
            consecutiveErrors |-> errors.current,
            maxConsecutiveErrors |-> errors.max,
            buyRatio |->
                IF Len(window) = 0 THEN Num(0)
                ELSE JsTimes(JsDivInt(Cardinality({i \in DOMAIN window :
                                                     window[i].direction = "BUY"}),
                                      Len(window)), 100),
            sellRatio |->
                IF Len(window) = 0 THEN Num(0)
                ELSE JsTimes(JsDivInt(Cardinality({i \in DOMAIN window :
                                                     window[i].direction = "SELL"}),
                                      Len(window)), 100),
            neutralRatio |->
                IF Len(window) = 0 THEN Num(0)
                ELSE JsTimes(JsDivInt(Cardinality({i \in DOMAIN window :
                                                     window[i].direction = "NEUTRAL"}),
                                      Len(window)), 100) ]
          : errors \in {calculateConsecutiveErrors(window)} } : TRUE

\* SystemState.getSnapshot called by the host
GetSnapshot ==
    /\ systemStatePresent /\ ~systemStateThrows
    /\ call' = [op |-> "SystemState.getSnapshot",
                ret |-> [ timestamp |-> now,
                          windowSize |-> Len(decisionWindow),
                          maxWindowSize |-> WINDOW_SIZE,
                          metrics |-> updateMetrics(decisionWindow),
                          recentDecisions |-> Slice(decisionWindow, -10,
                                                    Len(decisionWindow)) ]]
    /\ UNCHANGED <<decisionHistory, decisionWindow, arrivals, heap, systemStatePresent,
                   systemStateThrows, now, recorded, forwarded, ticks>>

\* mutant: success is reported for every outcome but 'incorrect'
ForwardPayload_NeutralSucceeds(decision) ==
    [ timeframe |-> decision.timeframe,
      direction |-> decision.direction,
      success |-> decision.evaluation.result # "incorrect",
      return |-> decision.evaluation.priceChange,
      confidence |-> decision.confidence,
      timestamp |-> now ]

\* the payload built at evaluation.js lines 159-166
ForwardPayload(decision) ==
    [ timeframe |-> decision.timeframe,
      direction |-> decision.direction,
      success |-> decision.evaluation.result = "correct",
      return |-> decision.evaluation.priceChange,
      confidence |-> decision.confidence,
      timestamp |-> now ]

\* the call of window.SystemState.recordDecision is made and does not return
ForwardThrows == systemStatePresent /\ systemStateThrows

Forward(window, decision) ==
    IF systemStatePresent /\ ~systemStateThrows
    THEN CHOOSE after \in
             { SystemStateRecord(window, data) : data \in {ForwardPayload(decision)} }
             : TRUE
    ELSE window

\* the entries the rolling window accepts for the decisions of evaluatedNow
Arrived(evaluatedNow) ==
    IF systemStatePresent /\ ~systemStateThrows
    THEN AcceptedEntries([n \in 1..Len(evaluatedNow) |->
                             ForwardPayload(evaluatedNow[n])])
    ELSE <<>>

\* the arguments of the calls of window.SystemState.recordDecision made for
\* the decisions of evaluatedNow, in order
Sent(evaluatedNow) ==
    IF systemStatePresent
    THEN [n \in 1..Len(evaluatedNow) |-> ForwardPayload(evaluatedNow[n])]
    ELSE <<>>

-----------------------------------------------------------------------------
(* evaluateDecision, evaluatePendingDecisions, clearHistory *)

EvaluateDecision(i, futurePrice) ==
    /\ i \in 1..Len(decisionHistory)
    /\ LET decision == decisionHistory[i]
       IN  IF ~EvaluationEligible(decision)
           THEN /\ call' = [op |-> "evaluateDecision", idx |-> i,
                            price |-> futurePrice, ret |-> "null",
                            sent |-> <<>>]
                /\ UNCHANGED <<decisionHistory, decisionWindow, arrivals, forwarded>>
           ELSE \E after \in {Evaluated(decision, futurePrice)} :
                    /\ decisionHistory' = [decisionHistory EXCEPT ![i] = after]
                    /\ decisionWindow' = Forward(decisionWindow, after)
                    /\ arrivals' = arrivals \o Arrived(<<after>>)
                    /\ forwarded' =
                           IF systemStatePresent
                           THEN [forwarded EXCEPT ![decision.serial] = @ + 1]
                           ELSE forwarded
                    /\ call' = [op |-> "evaluateDecision", idx |-> i,
                                price |-> futurePrice,
                                ret |-> IF ForwardThrows THEN "throws"
                                        ELSE after.evaluation.result,
                                sent |-> Sent(<<after>>)]
    /\ UNCHANGED <<heap, systemStatePresent, systemStateThrows, now, recorded, ticks>>

\* readyDecisions = decisionHistory.filter(d => d.status === 'ready')
ReadyDecisions(history) == SelectSeq(history, EvaluationEligible)

\* mutant: the loop stops after the first ready decision
EvaluateReady_FirstOnly(history, currentPrice) ==
    LET ready == {j \in 1..Len(history) : EvaluationEligible(history[j])}
    IN  [i \in 1..Len(history) |->
            IF i \in ready /\ \A m \in ready : i <= m
            THEN Evaluated(history[i], currentPrice)
            ELSE history[i]]

\* mutant: a failed forward undoes the evaluation it followed
EvaluateFirstReady_RolledBack(history, currentPrice) == history

\* readyDecisions.forEach(evaluateDecision) left by an exception of the first
\* evaluateDecision call, after lines 146-153: the first ready decision is
\* evaluated, the later ones stay ready
EvaluateFirstReady(history, currentPrice) ==
    LET ready == {j \in 1..Len(history) : EvaluationEligible(history[j])}
    IN  [i \in 1..Len(history) |->
            IF i \in ready /\ \A m \in ready : i <= m
            THEN Evaluated(history[i], currentPrice)
            ELSE history[i]]

\* the ready decisions evaluateDecision is called on
ReachedByLoop(readyDecisions) ==
    IF ForwardThrows /\ Len(readyDecisions) > 0
    THEN <<readyDecisions[1]>>
    ELSE readyDecisions

\* readyDecisions.forEach(evaluateDecision): each ready decision is mutated
\* in place, the others are left alone
EvaluateReady(history, currentPrice) ==
    [i \in 1..Len(history) |->
        IF EvaluationEligible(history[i])
        THEN Evaluated(history[i], currentPrice)
        ELSE history[i]]

\* the records evaluateDecision forwards for readyDecisions[1..n], in order
RECURSIVE ForwardAll(_, _, _, _)
ForwardAll(window, readyDecisions, n, currentPrice) ==
    IF n = 0 THEN window
    ELSE CHOOSE result \in
             { Forward(sofar, after)
               : <<sofar, after>> \in
                     {ForwardAll(window, readyDecisions, n - 1, currentPrice)}
                     \X {Evaluated(readyDecisions[n], currentPrice)} } : TRUE

EvaluatePendingDecisions(currentPrice) ==
    \E advanced \in {updateDecisionStatuses(decisionHistory, now)} :
    \E readyDecisions \in {ReadyDecisions(advanced)} :
    \E reached \in {ReachedByLoop(readyDecisions)} :
    \E reachedSerials \in {Serials(reached)} :
        /\ decisionHistory' =
               IF ForwardThrows
               THEN EvaluateFirstReady(advanced, currentPrice)
               ELSE EvaluateReady(advanced, currentPrice)
        /\ decisionWindow' =
               ForwardAll(decisionWindow, reached, Len(reached), currentPrice)
        /\ arrivals' = arrivals \o Arrived([n \in 1..Len(reached) |->
                                               Evaluated(reached[n], currentPrice)])
        /\ forwarded' = [s \in DOMAIN forwarded |->
                            IF systemStatePresent /\ s \in reachedSerials
                            THEN forwarded[s] + 1 ELSE forwarded[s]]
        /\ call' = [op |-> "evaluatePendingDecisions", idx |-> 0,
                    price |-> currentPrice,
                    ret |-> IF ForwardThrows /\ Len(readyDecisions) > 0
                            THEN "throws" ELSE "undefined",
                    sent |-> Sent([n \in 1..Len(reached) |->
                                      Evaluated(reached[n], currentPrice)])]
        /\ UNCHANGED <<heap, systemStatePresent, systemStateThrows, now, recorded, ticks>>

ClearHistory ==
    /\ decisionHistory' = <<>>
    /\ call' = [op |-> "clearHistory", idx |-> 0, price |-> 0, ret |-> "undefined"]
    /\ UNCHANGED <<decisionWindow, arrivals, heap, systemStatePresent, systemStateThrows, now, recorded, forwarded, ticks>>

-----------------------------------------------------------------------------
(* getPerformanceStats, getDecisionHistory *)

\* history.filter(d => d.status === status).length
CountStatus(history, status) ==
    Cardinality({i \in 1..Len(history) : history[i].status = status})

\* evaluated.filter(d => d.evaluation.result === result).length
CountResult(history, result) ==
    Cardinality({i \in 1..Len(history) :
                    /\ history[i].status = "evaluated"
                    /\ history[i].evaluation.result = result})

\* mutant: accuracy taken over all evaluated decisions, neutral ones included
getPerformanceStats_NeutralInAccuracy(history) ==
    IF CountStatus(history, "evaluated") = 0
    THEN [ total |-> 0,
           pending |-> CountStatus(history, "pending"),
           ready |-> CountStatus(history, "ready"),
           evaluated |-> 0, correct |-> 0, incorrect |-> 0, neutral |-> 0,
           accuracy |-> Num(0), winRate |-> Num(0) ]
    ELSE [ total |-> Len(history),
           pending |-> CountStatus(history, "pending"),
           ready |-> CountStatus(history, "ready"),
           evaluated |-> CountStatus(history, "evaluated"),
           correct |-> CountResult(history, "correct"),
           incorrect |-> CountResult(history, "incorrect"),
           neutral |-> CountResult(history, "neutral"),
           accuracy |-> JsTimes(JsDivInt(CountResult(history, "correct"),
                                         CountStatus(history, "evaluated")), 100),
           winRate |-> JsTimes(JsDivInt(CountResult(history, "correct"),
                                        CountStatus(history, "evaluated")), 100) ]

getPerformanceStats(history) ==
    IF CountStatus(history, "evaluated") = 0
    THEN [ total |-> 0,
           pending |-> CountStatus(history, "pending"),
           ready |-> CountStatus(history, "ready"),
           evaluated |-> 0, correct |-> 0, incorrect |-> 0, neutral |-> 0,
           accuracy |-> Num(0), winRate |-> Num(0) ]
    ELSE LET correct == CountResult(history, "correct")
             incorrect == CountResult(history, "incorrect")
             decisiveDecisions == correct + incorrect
         IN  [ total |-> Len(history),
               pending |-> CountStatus(history, "pending"),
               ready |-> CountStatus(history, "ready"),
               evaluated |-> CountStatus(history, "evaluated"),
               correct |-> correct,
               incorrect |-> incorrect,
               neutral |-> CountResult(history, "neutral"),
               accuracy |-> IF decisiveDecisions > 0
                            THEN JsTimes(JsDivInt(correct, decisiveDecisions), 100)
                            ELSE Num(0),
               winRate |-> JsTimes(JsDivInt(correct,
                                            CountStatus(history, "evaluated")), 100) ]

GetPerformanceStats ==
    /\ call' = [op |-> "getPerformanceStats", idx |-> 0, price |-> 0,
                ret |-> getPerformanceStats(decisionHistory)]
    /\ UNCHANGED <<decisionHistory, decisionWindow, arrivals, heap, systemStatePresent,
                   systemStateThrows, now, recorded, forwarded, ticks>>

\* arr.reverse()
Reverse(arr) == [i \in 1..Len(arr) |-> arr[Len(arr) - i + 1]]

\* the parameter limit = 50
LimitOrDefault(limit) == IF limit.k = "undef" THEN 50 ELSE limit.n

\* slice(-limit) runs to the end of the array; -0 is 0
getDecisionHistory(history, limit) ==
    Reverse(Slice(history, -LimitOrDefault(limit), Len(history)))

GetDecisionHistory(limit) ==
    /\ call' = [op |-> "getDecisionHistory", limit |-> limit,
                ret |-> getDecisionHistory(decisionHistory, limit)]
    /\ UNCHANGED <<decisionHistory, decisionWindow, arrivals, heap, systemStatePresent,
                   systemStateThrows, now, recorded, forwarded, ticks>>

-----------------------------------------------------------------------------
(* engine.js: performance analysis *)

\* history.filter(d => d.status === 'evaluated' && d.evaluation), for the
\* list getDecisionHistory(limit) returned
RECURSIVE getEvaluatedDecisions(_)
getEvaluatedDecisions(history) ==
    IF Len(history) = 0 THEN <<>>
    ELSE (IF Head(history).status = "evaluated" /\ Head(history).evaluation # NoEvaluation
          THEN <<Head(history)>> ELSE <<>>)
         \o getEvaluatedDecisions(Tail(history))

\* the ranges of getPerformanceByConfidenceRange; the last has min: null
ConfidenceRanges ==
    << [label |-> "0 - 40", min |-> Num(0), max |-> Num(40)],
       [label |-> "40 - 60", min |-> Num(40), max |-> Num(60)],
       [label |-> "60 - 80", min |-> Num(60), max |-> Num(80)],
       [label |-> "80 - 100", min |-> Num(80), max |-> Num(100)],
       [label |-> "unknown", min |-> Null, max |-> Null] >>

\* the bucket of a confidence: unknown unless it is finite and findIndex
\* finds a range with min <= conf < max
ConfidenceBucketIndex(conf) ==
    IF ~IsFinite(conf) THEN Len(ConfidenceRanges)
    ELSE LET found == {b \in DOMAIN ConfidenceRanges :
                         /\ ConfidenceRanges[b].min # Null
                         /\ JsGe(conf, ConfidenceRanges[b].min)
                         /\ JsLt(conf, ConfidenceRanges[b].max)}
         IN  IF found = {} THEN Len(ConfidenceRanges)
             ELSE CHOOSE b \in found : \A other \in found : b <= other

\* initBucket(label), updateBucket for each member, finalizeBucket
Bucket(label, evaluated, members) ==
    CHOOSE bucket \in
        { [ label |-> label,
            total |-> Cardinality(members),
            correct |-> correct,
            incorrect |-> incorrect,
            neutral |-> Cardinality(members) - correct - incorrect,
            accuracy |-> IF correct + incorrect > 0
                         THEN JsTimes(JsDivInt(correct, correct + incorrect), 100)
                         ELSE Num(0),
            winRate |-> IF Cardinality(members) > 0
                        THEN JsTimes(JsDivInt(correct, Cardinality(members)), 100)
                        ELSE Num(0) ]
          : correct \in {Cardinality({i \in members :
                                        evaluated[i].evaluation.result = "correct"})},
            incorrect \in {Cardinality({i \in members :
                                          evaluated[i].evaluation.result = "incorrect"})} }
        : TRUE

\* getPerformanceByConfidenceRange(limit = 1000)
getPerformanceByConfidenceRange(history, limit) ==
    CHOOSE report \in
        { [ b \in DOMAIN ConfidenceRanges |->
              Bucket(ConfidenceRanges[b].label, evaluated,
                     {i \in DOMAIN evaluated :
                        ConfidenceBucketIndex(evaluated[i].confidence) = b}) ]
          : evaluated \in
                {getEvaluatedDecisions(
                     getDecisionHistory(history,
                                        IF limit = Undefined THEN Num(1000)
                                        ELSE limit))} } : TRUE

\* window.PerformanceAnalysis.getPerformanceByConfidenceRange called by the
\* host
GetPerformanceByConfidenceRange(limit) ==
    /\ call' = [op |-> "getPerformanceByConfidenceRange", limit |-> limit,
                ret |-> getPerformanceByConfidenceRange(decisionHistory, limit)]
    /\ UNCHANGED <<decisionHistory, decisionWindow, arrivals, heap, systemStatePresent,
                   systemStateThrows, now, recorded, forwarded, ticks>>

-----------------------------------------------------------------------------
(* engine.js: indicators *)

\* the sums gains and losses after the first loop has handled i = 1..i
RECURSIVE RSISeed(_, _)
RSISeed(prices, i) ==
    IF i = 0 THEN [gains |-> Num(0), losses |-> Num(0)]
    ELSE CHOOSE sums \in
             { IF JsGt(change, Num(0))
               THEN [gains |-> JsAdd(prev.gains, change), losses |-> prev.losses]
               ELSE [gains |-> prev.gains, losses |-> JsSub(prev.losses, change)]
               : prev \in {RSISeed(prices, i - 1)},
                 change \in {JsSub(At(prices, i), At(prices, i - 1))} } : TRUE

\* avgGain and avgLoss after the second loop has handled i = period + 1..i
RECURSIVE RSISmooth(_, _, _)
RSISmooth(prices, period, i) ==
    IF i <= period
    THEN CHOOSE avg \in
             { [avgGain |-> JsDiv(seed.gains, Num(period)),
                avgLoss |-> JsDiv(seed.losses, Num(period))]
               : seed \in {RSISeed(prices, period)} } : TRUE
    ELSE CHOOSE avg \in
             { IF JsGt(change, Num(0))
               THEN [avgGain |-> JsDiv(JsAdd(JsMul(prev.avgGain, Num(period - 1)),
                                             change), Num(period)),
                     avgLoss |-> JsDiv(JsMul(prev.avgLoss, Num(period - 1)),
                                       Num(period))]
               ELSE [avgGain |-> JsDiv(JsMul(prev.avgGain, Num(period - 1)),
                                       Num(period)),
                     avgLoss |-> JsDiv(JsSub(JsMul(prev.avgLoss, Num(period - 1)),
                                             change), Num(period))]
               : prev \in {RSISmooth(prices, period, i - 1)},
                 change \in {JsSub(At(prices, i), At(prices, i - 1))} } : TRUE

\* mutant: no movement at all reads as the neutral 50
calculateRSI_FlatIsFifty(prices, period) ==
    IF Len(prices) < period + 1 THEN Num(50)
    ELSE LET avg == RSISmooth(prices, period, Len(prices) - 1)
             rs == JsDiv(avg.avgGain, avg.avgLoss)
         IN  IF JsEq(avg.avgLoss, Num(0))
             THEN (IF JsEq(avg.avgGain, Num(0)) THEN Num(50) ELSE Num(100))
             ELSE JsSub(Num(100), JsDiv(Num(100), JsAdd(Num(1), rs)))

calculateRSI(prices, period) ==
    IF Len(prices) < period + 1 THEN Num(50)
    ELSE LET avg == RSISmooth(prices, period, Len(prices) - 1)
             rs == JsDiv(avg.avgGain, avg.avgLoss)
         IN  IF JsEq(avg.avgLoss, Num(0)) THEN Num(100)
             ELSE JsSub(Num(100), JsDiv(Num(100), JsAdd(Num(1), rs)))

\* ema after the loop has handled i = period..i
RECURSIVE EMAUpTo(_, _, _)
EMAUpTo(prices, period, i) ==
    IF i < period
    THEN JsDiv(JsSum(Slice(prices, 0, period)), Num(period))
    ELSE CHOOSE next \in
             { JsAdd(JsMul(JsSub(At(prices, i), ema), Rat(2, period + 1)), ema)
               : ema \in {EMAUpTo(prices, period, i - 1)} } : TRUE

calculateEMA(prices, period) ==
    IF Len(prices) < period THEN At(prices, Len(prices) - 1)
    ELSE EMAUpTo(prices, period, Len(prices) - 1)

calculateEMAArray(prices, period) ==
    IF Len(prices) < period THEN [i \in 1..Len(prices) |-> Null]
    ELSE [i \in 1..Len(prices) |->
            IF i - 1 < period - 1 THEN Null ELSE EMAUpTo(prices, period, i - 1)]

\* arr.filter(v => v !== null)
NotNull(v) == v # Null

calculateMACD(prices) ==
    IF Len(prices) < 26 THEN Num(0)
    ELSE LET ema12Series == calculateEMAArray(prices, 12)
             ema26Series == calculateEMAArray(prices, 26)
             macdSeries == [i \in 1..Len(prices) |->
                               IF ema12Series[i] = Null \/ ema26Series[i] = Null
                               THEN Null
                               ELSE JsSub(ema12Series[i], ema26Series[i])]
             macdValues == SelectSeq(macdSeries, NotNull)
         IN  IF Len(macdValues) < 9 THEN Num(0)
             ELSE JsSub(At(macdValues, Len(macdValues) - 1),
                        calculateEMA(macdValues, 9))

\* one element of stochValues: the stochastic of rsiValues at 0-based index i
StochAt(rsiValues, i, stochPeriod) ==
    CHOOSE stoch \in
        { IF JsEq(JsSub(highest, lowest), Num(0)) THEN Num(50)
          ELSE JsMul(JsDiv(JsSub(At(rsiValues, i), lowest), JsSub(highest, lowest)),
                     Num(100))
          : <<highest, lowest>> \in
                { <<JsMaxOf(slice), JsMinOf(slice)>>
                  : slice \in {Slice(rsiValues, i - stochPeriod + 1, i + 1)} } }
        : TRUE

calculateStochasticRSI(prices, period) ==
    CHOOSE k \in
        { IF Len(rsiValues) < 14 THEN Num(50)
          ELSE JsDiv(JsSum(Slice([n \in 1..(Len(rsiValues) - 14 + 1) |->
                                     StochAt(rsiValues, 14 - 2 + n, 14)],
                                 -3, Len(rsiValues) - 14 + 1)),
                     Num(3))
          : rsiValues \in
                { [n \in 1..(IF Len(prices) > period THEN Len(prices) - period ELSE 0) |->
                      calculateRSI(Slice(prices, 0, period + n), period)] } } : TRUE

\* (highs[i] + lows[i] + close) / 3, for every close
TypicalPrices(highs, lows, closes) ==
    [i \in 1..Len(closes) |->
        JsDiv(JsAdd(JsAdd(At(highs, i - 1), At(lows, i - 1)), closes[i]), Num(3))]

\* positiveFlow and negativeFlow after the loop has handled i = 1..i
RECURSIVE MoneyFlows(_, _, _)
MoneyFlows(typicalPrices, rawMoneyFlow, i) ==
    IF i = 0 THEN [positiveFlow |-> Num(0), negativeFlow |-> Num(0)]
    ELSE CHOOSE flows \in
             { IF JsGt(At(typicalPrices, i), At(typicalPrices, i - 1))
               THEN [prev EXCEPT !.positiveFlow = JsAdd(@, At(rawMoneyFlow, i))]
               ELSE IF JsLt(At(typicalPrices, i), At(typicalPrices, i - 1))
               THEN [prev EXCEPT !.negativeFlow = JsAdd(@, At(rawMoneyFlow, i))]
               ELSE prev
               : prev \in {MoneyFlows(typicalPrices, rawMoneyFlow, i - 1)} } : TRUE

calculateMFI(highs, lows, closes, volumes, period) ==
    IF Len(closes) < period THEN Num(50)
    ELSE LET typicalPrices == TypicalPrices(highs, lows, closes)
             rawMoneyFlow == [i \in 1..Len(typicalPrices) |->
                                 JsMul(typicalPrices[i], At(volumes, i - 1))]
             bound == IF period + 1 < Len(typicalPrices)
                      THEN period + 1 ELSE Len(typicalPrices)
             flows == MoneyFlows(typicalPrices, rawMoneyFlow, bound - 1)
             moneyFlowRatio == JsDiv(flows.positiveFlow, flows.negativeFlow)
         IN  IF JsEq(flows.negativeFlow, Num(0)) THEN Num(100)
             ELSE JsSub(Num(100), JsDiv(Num(100), JsAdd(Num(1), moneyFlowRatio)))

\* atr after the loop has handled i = period..i
RECURSIVE ATRUpTo(_, _, _)
ATRUpTo(trueRanges, period, i) ==
    IF i < period
    THEN JsDiv(JsSum(Slice(trueRanges, 0, period)), Num(period))
    ELSE CHOOSE next \in
             { JsDiv(JsAdd(JsMul(atr, Num(period - 1)), At(trueRanges, i)),
                     Num(period))
               : atr \in {ATRUpTo(trueRanges, period, i - 1)} } : TRUE

calculateATR(highs, lows, closes, period) ==
    IF Len(closes) < period + 1 THEN Rat(1, 10000)
    ELSE LET trueRanges ==
                 [i \in 1..(Len(closes) - 1) |->
                     JsMax2(JsMax2(JsSub(At(highs, i), At(lows, i)),
                                   JsAbs(JsSub(At(highs, i), At(closes, i - 1)))),
                            JsAbs(JsSub(At(lows, i), At(closes, i - 1))))]
         IN  ATRUpTo(trueRanges, period, Len(trueRanges) - 1)

\* smma after the loop has handled i = period..i
RECURSIVE SMMAUpTo(_, _, _)
SMMAUpTo(prices, period, i) ==
    IF i < period
    THEN JsDiv(JsSum(Slice(prices, 0, period)), Num(period))
    ELSE CHOOSE next \in
             { JsDiv(JsAdd(JsMul(smma, Num(period - 1)), At(prices, i)),
                     Num(period))
               : smma \in {SMMAUpTo(prices, period, i - 1)} } : TRUE

calculateSMMAArray(prices, period) ==
    IF Len(prices) < period THEN <<>>
    ELSE [n \in 1..(Len(prices) - period + 1) |->
             SMMAUpTo(prices, period, period - 2 + n)]

OCCNeutral == [value |-> Num(0), signal |-> "NEUTRAL", strength |-> Num(0),
               crossover |-> FALSE]

\* the record calculateOCC returns for the last two values of each average
OCCOf(prevOpenMA, prevCloseMA, currentOpenMA, currentCloseMA) ==
    LET bullish == JsGe(prevOpenMA, prevCloseMA) /\ JsGt(currentCloseMA, currentOpenMA)
        bearish == JsGe(prevCloseMA, prevOpenMA) /\ JsLt(currentCloseMA, currentOpenMA)
    IN  [ value |-> IF bullish THEN Num(50) ELSE IF bearish THEN Num(-50) ELSE Num(0),
          signal |-> IF bullish THEN "BUY" ELSE IF bearish THEN "SELL" ELSE "NEUTRAL",
          strength |-> IF bullish \/ bearish THEN Num(50) ELSE Num(0),
          crossover |-> bullish \/ bearish,
          openMA |-> currentOpenMA,
          closeMA |-> currentCloseMA ]

calculateOCC(opens, closes, period) ==
    IF Len(opens) < period + 2 \/ Len(closes) < period + 2 THEN OCCNeutral
    ELSE CHOOSE result \in
             { IF Len(openSMMAArray) < 2 \/ Len(closeSMMAArray) < 2 THEN OCCNeutral
               ELSE OCCOf(At(openSMMAArray, Len(openSMMAArray) - 2),
                          At(closeSMMAArray, Len(closeSMMAArray) - 2),
                          At(openSMMAArray, Len(openSMMAArray) - 1),
                          At(closeSMMAArray, Len(closeSMMAArray) - 1))
               : openSMMAArray \in {calculateSMMAArray(opens, period)},
                 closeSMMAArray \in {calculateSMMAArray(closes, period)} } : TRUE

\* sum + Math.abs(tp - sma) over an array
RECURSIVE AbsDeviationSum(_, _)
AbsDeviationSum(arr, sma) ==
    IF Len(arr) = 0 THEN Num(0)
    ELSE CHOOSE sum \in
             { JsAdd(sofar, JsAbs(JsSub(arr[Len(arr)], sma)))
               : sofar \in {AbsDeviationSum(SubSeq(arr, 1, Len(arr) - 1), sma)} }
             : TRUE

calculateCCI(highs, lows, closes, period) ==
    IF Len(closes) < period THEN Num(0)
    ELSE LET typicalPrices == TypicalPrices(highs, lows, closes)
             recent == Slice(typicalPrices, -period, Len(typicalPrices))
             sma == JsDiv(JsSum(recent), Num(period))
             meanDev == JsDiv(AbsDeviationSum(recent, sma), Num(period))
             currentTP == At(typicalPrices, Len(typicalPrices) - 1)
         IN  IF JsEq(meanDev, Num(0)) THEN Num(0)
             ELSE JsDiv(JsSub(currentTP, sma), JsMul(Rat(3, 200), meanDev))

\* fEMA - sEMA of one series
MACDOf(closes, fastPeriod, slowPeriod) ==
    CHOOSE macd \in
        { JsSub(fastEMA, slowEMA)
          : fastEMA \in {calculateEMA(closes, fastPeriod)},
            slowEMA \in {calculateEMA(closes, slowPeriod)} } : TRUE

calculateSchaffTrendCycle(closes, fastPeriod, slowPeriod, cyclePeriod) ==
    IF Len(closes) < slowPeriod + cyclePeriod THEN Num(50)
    ELSE LET first == IF Len(closes) - cyclePeriod * 2 > 0
                      THEN Len(closes) - cyclePeriod * 2 ELSE 0
         IN  CHOOSE stoch1 \in
                 { IF JsEq(JsSub(maxMACD, minMACD), Num(0)) THEN Num(50)
                   ELSE JsMul(JsDiv(JsSub(macd, minMACD), JsSub(maxMACD, minMACD)),
                              Num(100))
                   : macd \in {MACDOf(closes, fastPeriod, slowPeriod)},
                     <<maxMACD, minMACD>> \in
                         { <<JsMaxOf(recentMACD), JsMinOf(recentMACD)>>
                           : recentMACD \in
                               { Slice(macdArray, -cyclePeriod, Len(macdArray))
                                 : macdArray \in
                                     { [n \in 1..(Len(closes) - first) |->
                                          MACDOf(Slice(closes, 0, first + n),
                                                 fastPeriod, slowPeriod)] } } } }
                 : TRUE

\* mutant: BUY only when all three votes are bullish
calculateSTCCCI_Unanimous(highs, lows, closes, period) ==
    IF Len(closes) < 50
    THEN [value |-> Num(0), signal |-> "NEUTRAL", strength |-> Num(0)]
    ELSE CHOOSE result \in
             { LET bullishSignals == (IF JsGt(stc, Num(50)) THEN 1 ELSE 0)
                                     + (IF JsGt(cci, Num(0)) THEN 1 ELSE 0)
                                     + (IF JsGt(priceChange, Num(0)) THEN 1 ELSE 0)
               IN  [ value |-> IF bullishSignals >= 3 THEN Num(30) ELSE Num(-30),
                     signal |-> IF bullishSignals >= 3 THEN "BUY" ELSE "SELL",
                     strength |-> Num(30),
                     stc |-> stc,
                     cci |-> cci,
                     priceChange |-> priceChange ]
               : stc \in {calculateSchaffTrendCycle(closes, 23, 50, 10)},
                 cci \in {calculateCCI(highs, lows, closes, period)},
                 priceChange \in
                     { JsMul(JsDiv(JsSub(At(recentCloses, Len(recentCloses) - 1),
                                         At(recentCloses, 0)),
                                   At(recentCloses, 0)),
                             Num(100))
                       : recentCloses \in {Slice(closes, -5, Len(closes))} } }
             : TRUE

calculateSTCCCI(highs, lows, closes, period) ==
    IF Len(closes) < 50
    THEN [value |-> Num(0), signal |-> "NEUTRAL", strength |-> Num(0)]
    ELSE CHOOSE result \in
             { LET bullishSignals == (IF JsGt(stc, Num(50)) THEN 1 ELSE 0)
                                     + (IF JsGt(cci, Num(0)) THEN 1 ELSE 0)
                                     + (IF JsGt(priceChange, Num(0)) THEN 1 ELSE 0)
               IN  [ value |-> IF bullishSignals >= 2 THEN Num(30) ELSE Num(-30),
                     signal |-> IF bullishSignals >= 2 THEN "BUY" ELSE "SELL",
                     strength |-> Num(30),
                     stc |-> stc,
                     cci |-> cci,
                     priceChange |-> priceChange ]
               : stc \in {calculateSchaffTrendCycle(closes, 23, 50, 10)},
                 cci \in {calculateCCI(highs, lows, closes, period)},
                 priceChange \in
                     { JsMul(JsDiv(JsSub(At(recentCloses, Len(recentCloses) - 1),
                                         At(recentCloses, 0)),
                                   At(recentCloses, 0)),
                             Num(100))
                       : recentCloses \in {Slice(closes, -5, Len(closes))} } }
             : TRUE

\* 'bullish', 'bearish' or null (written "null")
detectDivergence(prices, rsi) ==
    LET recentPrices == Slice(prices, -20, Len(prices))
        priceMax == JsMaxOf(recentPrices)
        priceMin == JsMinOf(recentPrices)
        last == At(recentPrices, Len(recentPrices) - 1)
    IN  IF JsGe(priceMin, last) /\ JsGt(rsi, Num(35)) THEN "bullish"
        ELSE IF JsGe(last, priceMax) /\ JsLt(rsi, Num(65)) THEN "bearish"
        ELSE "null"

-----------------------------------------------------------------------------
(* engine.js: analyzeMarket *)

\* parseFloat of a row field: a number stays, anything else is NaN
ParseFloat(x) == IF x.k \in {"num", "inf", "ninf"} THEN x ELSE NaN

\* parseInt of a row field: the integer part of a finite number, else NaN
ParseInt(x) ==
    IF x.k = "num"
    THEN Num(IF x.n >= 0 THEN x.n \div x.d ELSE -((-x.n) \div x.d))
    ELSE NaN

\* klines[klines.length - 1][4] reads a field of undefined
prepareMarketDataThrows(klines) == Len(klines) = 0

\* a row is <<timestamp, open, high, low, close, volume>>
prepareMarketData(klines) ==
    LET closedCandles == Slice(klines, 0, -1)
    IN  [ closes |-> [i \in 1..Len(closedCandles) |-> ParseFloat(closedCandles[i][5])],
          opens |-> [i \in 1..Len(closedCandles) |-> ParseFloat(closedCandles[i][2])],
          highs |-> [i \in 1..Len(closedCandles) |-> ParseFloat(closedCandles[i][3])],
          lows |-> [i \in 1..Len(closedCandles) |-> ParseFloat(closedCandles[i][4])],
          volumes |-> [i \in 1..Len(closedCandles) |-> ParseFloat(closedCandles[i][6])],
          timestamps |-> [i \in 1..Len(closedCandles) |-> ParseInt(closedCandles[i][1])],
          currentPrice |-> ParseFloat(klines[Len(klines)][5]),
          lastClosedCandle |-> At(closedCandles, Len(closedCandles) - 1) ]

\* the trend read off the EMAs
DetectTrend(closes, ema20, ema50, ema200) ==
    LET analysisPrice == At(closes, Len(closes) - 1)
    IN  IF Len(closes) >= 200
        THEN IF JsGt(analysisPrice, ema20) /\ JsGt(ema20, ema50) /\ JsGt(ema50, ema200)
             THEN "uptrend"
             ELSE IF JsLt(analysisPrice, ema20) /\ JsLt(ema20, ema50)
                     /\ JsLt(ema50, ema200)
             THEN "downtrend"
             ELSE "sideways"
        ELSE IF Len(closes) >= 20
        THEN IF JsGt(analysisPrice, ema20) THEN "uptrend"
             ELSE IF JsLt(analysisPrice, ema20) THEN "downtrend"
             ELSE "sideways"
        ELSE "sideways"

calculateTechnicalIndicators(marketInfo) ==
    LET closes == marketInfo.closes
        highs == marketInfo.highs
        lows == marketInfo.lows
        volumes == marketInfo.volumes
    IN  CHOOSE indicators \in
            { [ rsi |-> [value |-> rsi],
                macd |-> [value |-> calculateMACD(closes), atr |-> atr],
                stochRsi |-> [value |-> calculateStochasticRSI(closes, 14)],
                mfi |-> [value |-> calculateMFI(highs, lows, closes, volumes, 14)],
                trend |-> [value |-> DetectTrend(closes, ema20, ema50, ema200)],
                divergence |-> [value |-> detectDivergence(closes, rsi)],
                occ |-> calculateOCC(marketInfo.opens, closes, 8),
                stcCci |-> calculateSTCCCI(highs, lows, closes, 20),
                ema |-> [ema20 |-> ema20, ema50 |-> ema50, ema200 |-> ema200],
                atr |-> atr,
                currentPrice |-> marketInfo.currentPrice,
                volume |-> At(volumes, Len(volumes) - 1),
                avgVolume |-> JsDiv(JsSum(Slice(volumes, 0, -1)),
                                    Num(Len(volumes) - 1)) ]
              : rsi \in {calculateRSI(closes, 14)},
                ema20 \in {calculateEMA(closes, 20)},
                ema50 \in {calculateEMA(closes, 50)},
                ema200 \in {calculateEMA(closes, 200)},
                atr \in {calculateATR(highs, lows, closes, 14)} } : TRUE

\* Number.isFinite(x) ? x : fallback
FiniteOr(x, fallback) == IF IsFinite(x) THEN x ELSE fallback

calculateRSIScore(rsi) ==
    IF JsLt(rsi, Num(20)) THEN Num(40)
    ELSE IF JsLt(rsi, Num(30)) THEN Num(30)
    ELSE IF JsLt(rsi, Num(40)) THEN Num(15)
    ELSE IF JsGt(rsi, Num(80)) THEN Num(-40)
    ELSE IF JsGt(rsi, Num(70)) THEN Num(-30)
    ELSE IF JsGt(rsi, Num(60)) THEN Num(-15)
    ELSE Num(0)

\* the score of each indicator, in the order of the object's keys; the
\* divergence entry has a value and no score
calculateIndicatorScores(indicators) ==
    LET atrValue == IF IsFinite(indicators.atr) /\ JsGt(indicators.atr, Num(0))
                    THEN indicators.atr ELSE Rat(1, 10000)
    IN  [ rsi |-> calculateRSIScore(FiniteOr(indicators.rsi.value, Num(50))),
          macd |-> JsMul(JsDiv(FiniteOr(indicators.macd.value, Num(0)), atrValue),
                         Num(50)),
          stochRsi |-> JsMul(JsSub(FiniteOr(indicators.stochRsi.value, Num(50)),
                                   Num(50)), Num(2)),
          mfi |-> JsMul(JsSub(FiniteOr(indicators.mfi.value, Num(50)), Num(50)),
                        Num(2)),
          trend |-> IF indicators.trend.value = "uptrend" THEN Num(30)
                    ELSE IF indicators.trend.value = "downtrend" THEN Num(-30)
                    ELSE Num(0),
          occ |-> FiniteOr(indicators.occ.value, Num(0)),
          stcCci |-> FiniteOr(indicators.stcCci.value, Num(0)),
          divergence |-> indicators.divergence.value ]

adjustScoreByMode(score, mode) ==
    IF mode = "aggressive" THEN JsMul(score, Rat(4, 5))
    ELSE IF mode = "conservative" THEN JsMul(score, Rat(3, 2))
    ELSE score

\* totalScore += indicator.score for the finite scores, in key order
RECURSIVE SumFinite(_)
SumFinite(scores) ==
    IF Len(scores) = 0 THEN Num(0)
    ELSE CHOOSE sum \in
             { IF IsFinite(scores[Len(scores)])
               THEN JsAdd(sofar, scores[Len(scores)]) ELSE sofar
               : sofar \in {SumFinite(SubSeq(scores, 1, Len(scores) - 1))} } : TRUE

calculateTotalScore(indicatorScores, config) ==
    LET summed == SumFinite(<<indicatorScores.rsi, indicatorScores.macd,
                              indicatorScores.stochRsi, indicatorScores.mfi,
                              indicatorScores.trend, indicatorScores.occ,
                              indicatorScores.stcCci>>)
        adjusted == adjustScoreByMode(FiniteOr(summed, Num(0)), config.tradingMode)
        bullish == IF config.divergenceDetection /\ indicatorScores.divergence = "bullish"
                   THEN JsAdd(adjusted, Num(20)) ELSE adjusted
    IN  IF config.divergenceDetection /\ indicatorScores.divergence = "bearish"
        THEN JsSub(bullish, Num(20)) ELSE bullish

\* ANALYSIS_CONFIG.THRESHOLDS[mode]: own keys, then Object.prototype
ThresholdsLookup(mode) ==
    CASE mode = "aggressive" -> Num(10)
      [] mode = "balanced" -> Num(25)
      [] mode = "conservative" -> Num(40)
      [] mode \in InheritedKeys -> FunctionValue
      [] OTHER -> Undefined

\* the threshold determineDirection compares with
EffectiveThreshold(config) ==
    IF IsFinite(config.backtestThreshold)
    THEN config.backtestThreshold
    ELSE JsOr(ThresholdsLookup(config.tradingMode), ThresholdsLookup("balanced"))

\* mutant: a score equal to the threshold already decides
DirectionByThreshold_Inclusive(totalScore, threshold) ==
    IF JsGe(totalScore, threshold) THEN "BUY"
    ELSE IF JsGe(JsNeg(ToNumber(threshold)), totalScore) THEN "SELL"
    ELSE "NEUTRAL"

\* the direction before the trend filter
DirectionByThreshold(totalScore, threshold) ==
    IF JsGt(totalScore, threshold) THEN "BUY"
    ELSE IF JsLt(totalScore, JsNeg(ToNumber(threshold))) THEN "SELL"
    ELSE "NEUTRAL"

FilterByTrend(direction, trend) ==
    IF direction = "BUY" /\ trend = "downtrend" THEN "NEUTRAL"
    ELSE IF direction = "SELL" /\ trend = "uptrend" THEN "NEUTRAL"
    ELSE direction

\* mutant: no confidence is reported for a direction the trend filter removed
determineDirection_FilteredHasNoConfidence(totalScore, config, indicators) ==
    LET threshold == EffectiveThreshold(config)
        direction == DirectionByThreshold(totalScore, threshold)
        filtered == IF config.trendFilter
                    THEN FilterByTrend(direction, indicators.trend.value)
                    ELSE direction
    IN  [ direction |-> filtered,
          confidence |-> IF filtered # direction THEN Num(0)
                         ELSE JsMin2(Num(100),
                                     JsMax2(Num(0),
                                            JsMul(JsDiv(JsAbs(totalScore),
                                                        JsMul(threshold, Num(2))),
                                                  Num(100)))) ]

determineDirection(totalScore, config, indicators) ==
    LET threshold == EffectiveThreshold(config)
        direction == DirectionByThreshold(totalScore, threshold)
        maxScore == JsMul(threshold, Num(2))
    IN  [ direction |-> IF config.trendFilter
                        THEN FilterByTrend(direction, indicators.trend.value)
                        ELSE direction,
          confidence |-> JsMin2(Num(100),
                                JsMax2(Num(0),
                                       JsMul(JsDiv(JsAbs(totalScore), maxScore),
                                             Num(100)))) ]

\* the text returned: its direction word, the first reason found, the mode
generateExplanation(indicators, direction, config) ==
    [ directionText |-> IF direction = "BUY" THEN "COMPRA"
                        ELSE IF direction = "SELL" THEN "VENDA" ELSE "NEUTRO",
      mainReason |-> IF JsLt(indicators.rsi.value, Num(30)) THEN "RSI oversold"
                     ELSE IF JsGt(indicators.rsi.value, Num(70)) THEN "RSI overbought"
                     ELSE IF JsGt(indicators.macd.value, Num(0)) THEN "MACD positivo"
                     ELSE "MACD negativo",
      mode |-> config.tradingMode ]

\* the result analyzeMarket builds from the indicators
AnalysisOf(marketData, indicators) ==
    CHOOSE result \in
        { [ threw |-> "nothing",
            direction |-> decided.direction,
            confidence |-> decided.confidence,
            indicators |-> indicators,
            scores |-> indicatorScores,
            totalScore |-> totalScore,
            explanation |-> generateExplanation(indicators, decided.direction,
                                                marketData.config),
            timeframe |-> marketData.timeframe,
            timestamp |-> now ]
          : <<indicatorScores, totalScore, decided>> \in
                { <<scores, total, determineDirection(total, marketData.config, indicators)>>
                  : <<scores, total>> \in
                        { <<scored, calculateTotalScore(scored, marketData.config)>>
                          : scored \in {calculateIndicatorScores(indicators)} } } }
        : TRUE

\* what analyzeMarket returns, or the exception that leaves it
analyzeMarket(marketData) ==
    IF prepareMarketDataThrows(marketData.klines)
    THEN [threw |-> "TypeError"]
    ELSE CHOOSE result \in
             { AnalysisOf(marketData, indicators)
               : indicators \in
                     { calculateTechnicalIndicators(
                           prepareMarketData(marketData.klines)) } } : TRUE

-----------------------------------------------------------------------------
(* The clock *)

Tick(delta) ==
    /\ now' = now + delta
    /\ ticks' = ticks + 1
    /\ call' = [op |-> "tick", idx |-> 0, price |-> 0, ret |-> "undefined"]
    /\ UNCHANGED <<decisionHistory, decisionWindow, arrivals, heap, systemStatePresent, systemStateThrows,
                   recorded, forwarded>>

-----------------------------------------------------------------------------
(* The ledger under a host that records, polls, evaluates single decisions *)
(* and clears, with the clock moving in between.                           *)

Init ==
    /\ decisionHistory = <<>>
    /\ decisionWindow = <<>>
    /\ arrivals = <<>>
    /\ heap = InitialHeap
    /\ systemStatePresent \in BOOLEAN
    /\ systemStateThrows = FALSE
    /\ now = 0
    /\ call = [op |-> "init", idx |-> 0, price |-> 0, ret |-> "undefined"]
    /\ recorded = 0
    /\ forwarded = <<>>
    /\ ticks = 0

LedgerPayloads ==
    [ direction : {"BUY", "SELL", "NEUTRAL"},
      confidence : {Num(70)},
      currentPrice : {1000},
      timeframe : {"1m"},
      evaluationHorizon : {Undefined} ]

LedgerPrices == {1000, 1050}

Next ==
    \/ \E d \in LedgerPayloads : recorded < MaxRecords /\ RecordDecision(d)
    \/ \E i \in 1..MaxRecords : \E p \in LedgerPrices : EvaluateDecision(i, p)
    \/ \E p \in LedgerPrices : EvaluatePendingDecisions(p)
    \/ ClearHistory
    \/ \E delta \in {1, 179999} : ticks < MaxTicks /\ Tick(delta)

Spec == Init /\ [][Next]_vars

-----------------------------------------------------------------------------
(* The same host with any object installed as window.SystemState: none,    *)
(* the rolling window of part_000, or one whose recordDecision ends in an  *)
(* exception.                                                              *)

InitConsumer ==
    /\ decisionHistory = <<>>
    /\ decisionWindow = <<>>
    /\ arrivals = <<>>
    /\ heap = InitialHeap
    /\ systemStatePresent \in BOOLEAN
    /\ systemStateThrows \in BOOLEAN
    /\ systemStateThrows => systemStatePresent
    /\ now = 0
    /\ call = [op |-> "init", idx |-> 0, price |-> 0, ret |-> "undefined"]
    /\ recorded = 0
    /\ forwarded = <<>>
    /\ ticks = 0

SpecConsumer == InitConsumer /\ [][Next]_vars

-----------------------------------------------------------------------------
(* The ledger filled past its capacity: nothing but recordDecision calls. *)

SpecCap ==
    Init /\ [][/\ recorded < MaxCapRecords
               /\ RecordDecision([ direction |-> "BUY", confidence |-> Num(70),
                                   currentPrice |-> 1000, timeframe |-> "1m",
                                   evaluationHorizon |-> Undefined ])]_vars

-----------------------------------------------------------------------------
(* Outcome classification: decisions of every direction, recorded at a     *)
(* positive or a zero price, polled at prices around the +-0.1 % band.     *)

NextClassify ==
    \/ \E d \in
           [ direction : {"BUY", "SELL", "NEUTRAL"},
             confidence : {Num(70)},
             currentPrice : {0, 1000},
             timeframe : {"1m"},
             evaluationHorizon : {Undefined} ] :
           recorded < MaxClassifyRecords /\ RecordDecision(d)
    \/ \E p \in {0, 998, 999, 1000, 1001, 1002} : EvaluatePendingDecisions(p)
    \/ ticks < MaxTicks /\ Tick(180000)

SpecClassify == Init /\ [][NextClassify]_vars

-----------------------------------------------------------------------------
(* Horizon selection: every timeframe of the table, one outside it, one    *)
(* that names an inherited property, with and without an override.         *)

HorizonPayloads ==
    [ direction : {"BUY"},
      confidence : {Num(70)},
      currentPrice : {1000},
      timeframe : {"1m", "5m", "15m", "1h", "4h"} \cup InheritedKeys,
      evaluationHorizon : {Undefined, Num(0), Num(60000)} ]

NextHorizon ==
    \/ \E d \in HorizonPayloads : recorded < MaxHorizonRecords /\ RecordDecision(d)
    \/ ClearHistory

SpecHorizon == Init /\ [][NextHorizon]_vars

-----------------------------------------------------------------------------
(* The ledger under a host that keeps polling while the clock keeps        *)
(* advancing.  The clock of the model stops after MaxTicks steps, so a     *)
(* decision is recorded only while a step of a full 1m horizon is still to *)
(* come.  Decisions with a NaN horizon (timeframe "constructor") are       *)
(* recorded too.                                                           *)

FairPolls == \E p \in LedgerPrices : EvaluatePendingDecisions(p)
FairTicks == ticks < MaxTicks /\ Tick(180000)

NextFair ==
    \/ \E d \in
           [ direction : {"BUY", "SELL"},
             confidence : {Num(70)},
             currentPrice : {1000},
             timeframe : {"1m"} \cup InheritedKeys,
             evaluationHorizon : {Undefined} ] :
           recorded < MaxRecords /\ ticks < MaxTicks /\ RecordDecision(d)
    \/ FairPolls
    \/ ClearHistory
    \/ FairTicks

FairSpec == Init /\ [][NextFair]_vars /\ WF_vars(FairTicks) /\ WF_vars(FairPolls)

-----------------------------------------------------------------------------
(* Statistics: up to MaxStatsRecords decisions recorded, polled at a lower *)
(* or an unchanged price once their horizon has passed, and the statistics *)
(* read at any point.                                                      *)

NextStats ==
    \/ \E d \in LedgerPayloads : recorded < MaxStatsRecords /\ RecordDecision(d)
    \/ \E p \in {950, 1000} : EvaluatePendingDecisions(p)
    \/ ticks < MaxStatsTicks /\ Tick(180000)
    \/ ClearHistory
    \/ GetPerformanceStats

SpecStats == Init /\ [][NextStats]_vars

-----------------------------------------------------------------------------
(* recordDecision offered payloads whose confidence is a number, NaN, a    *)
(* string, null or missing, and no payload at all.                         *)

NextAtomic ==
    \/ /\ recorded < MaxAtomicRecords
       /\ \E decisionData \in
              [ direction : {"BUY"},
                confidence : {Num(70), NaN, Str("70"), Null, Undefined},
                currentPrice : {1000},
                timeframe : {"1m"},
                evaluationHorizon : {Undefined} ] \cup {Undefined, Null} :
              RecordDecision(decisionData)
    \/ ClearHistory

SpecAtomic == Init /\ [][NextAtomic]_vars

-----------------------------------------------------------------------------
(* The confidence report: decisions recorded with confidences at the ends  *)
(* of every range, inside one, and NaN; polled once their horizon has      *)
(* passed; the report read at any point.                                   *)

NextConfidence ==
    \/ /\ recorded < MaxConfidenceRecords
       /\ \E decisionData \in
              [ direction : {"BUY", "SELL"},
                confidence : {Num(0), Num(40), Rat(799, 10), Num(80), Num(100), NaN},
                currentPrice : {1000},
                timeframe : {"1m"},
                evaluationHorizon : {Undefined} ] :
              RecordDecision(decisionData)
    \/ EvaluatePendingDecisions(950)
    \/ ticks < MaxConfidenceTicks /\ Tick(180000)
    \/ \E limit \in {Undefined, Num(1)} : GetPerformanceByConfidenceRange(limit)

SpecConfidence == Init /\ [][NextConfidence]_vars

-----------------------------------------------------------------------------
(* Retrieval: up to MaxReadRecords decisions recorded, and the history     *)
(* read with every limit from 0 to one more than that, or with none.       *)

NextRead ==
    \/ \E d \in
           [ direction : {"BUY", "SELL"},
             confidence : {Num(70)},
             currentPrice : {1000},
             timeframe : {"1m"},
             evaluationHorizon : {Undefined} ] :
           recorded < MaxReadRecords /\ RecordDecision(d)
    \/ ClearHistory
    \/ \E limit \in {Undefined} \cup {Num(n) : n \in 0..(MaxReadRecords + 1)} :
           GetDecisionHistory(limit)

SpecRead == Init /\ [][NextRead]_vars

-----------------------------------------------------------------------------
(* analyzeMarket on candle series of 0 to MaxCandles rows: flat, rising,   *)
(* falling and alternating prices, and rows whose fields do not parse,     *)
(* under every trading mode.  The series and the configuration are drawn   *)
(* at the start; the one step is the call.  Prices are small integers so   *)
(* that the smoothed averages stay within the integers of the checker.     *)

\* the close of row j (from 1) of a pattern
CloseOf(pattern, j) ==
    CASE pattern = "flat" -> 5
      [] pattern = "rising" -> 3 + (j \div 3)
      [] pattern = "falling" -> 9 - (j \div 3)
      [] OTHER -> 4 + 2 * (j % 2)

\* <<timestamp, open, high, low, close, volume>>
CandleRow(pattern, j) ==
    IF pattern = "unparsed"
    THEN <<Num(60000 * j), Undefined, Undefined, Undefined, Undefined, Undefined>>
    ELSE <<Num(60000 * j), Num(CloseOf(pattern, j) - 1), Num(CloseOf(pattern, j) + 1),
           Num(CloseOf(pattern, j) - 2), Num(CloseOf(pattern, j)), Num(10 + (j % 3))>>

Candles(pattern, n) == [j \in 1..n |-> CandleRow(pattern, j)]

AnalysisConfigs ==
    [ tradingMode : {"aggressive", "balanced", "conservative"},
      backtestThreshold : {Undefined},
      trendFilter : BOOLEAN,
      divergenceDetection : BOOLEAN ]

InitAnalyze ==
    /\ decisionHistory = <<>>
    /\ decisionWindow = <<>>
    /\ arrivals = <<>>
    /\ heap = InitialHeap
    /\ systemStatePresent \in BOOLEAN
    /\ systemStateThrows = FALSE
    /\ now = 0
    /\ call \in { [ op |-> "input",
                     marketData |-> [ klines |-> Candles(pattern, n),
                                      timeframe |-> "1m", config |-> config ] ]
                   : pattern \in {"flat", "rising", "falling", "alternating", "unparsed"}, n \in 0..MaxCandles,
                     config \in AnalysisConfigs }
    /\ recorded = 0
    /\ forwarded = <<>>
    /\ ticks = 0

AnalyzeMarket ==
    /\ call.op = "input"
    /\ call' = [op |-> "analyzeMarket", marketData |-> call.marketData,
                ret |-> analyzeMarket(call.marketData)]
    /\ UNCHANGED <<decisionHistory, decisionWindow, arrivals, heap, systemStatePresent,
                   systemStateThrows, now, recorded, forwarded, ticks>>

SpecAnalyze == InitAnalyze /\ [][AnalyzeMarket]_vars

-----------------------------------------------------------------------------
(* calculateRSI and calculateSTCCCI on series that are flat but for one or *)
(* two level shifts of one unit up or down, and on series of values that   *)
(* did not parse.  Up to MaxShortCandles rows the shifts come at any two   *)
(* rows; in longer series they come at the last two rows, so that the      *)
(* smoothed averages stay within the integers of the checker.  For         *)
(* calculateSTCCCI the last row may reach above or below its close.        *)

\* the series of n rows that is 10 before row p1, shifted by d1 from row p1
\* on and by d2 more from row p2 on, with the last high e above the close
\* (e > 0) or the last low -e below it (e < 0)
SeriesOf(n, p1, d1, p2, d2, e) ==
    CHOOSE series \in
        { [ highs |-> [j \in 1..n |->
                         JsAdd(closes[j], Num(IF j = n /\ e > 0 THEN e ELSE 0))],
            lows |-> [j \in 1..n |->
                        JsAdd(closes[j], Num(IF j = n /\ e < 0 THEN e ELSE 0))],
            closes |-> closes ]
          : closes \in
                { [j \in 1..n |-> Num(10 + (IF j >= p1 THEN d1 ELSE 0)
                                         + (IF j >= p2 THEN d2 ELSE 0))] } } : TRUE

InitIndicators ==
    /\ decisionHistory = <<>>
    /\ decisionWindow = <<>>
    /\ arrivals = <<>>
    /\ heap = InitialHeap
    /\ systemStatePresent = TRUE
    /\ systemStateThrows = FALSE
    /\ now = 0
    /\ call \in
           { [op |-> "prices", prices |-> SeriesOf(n, p1, d1, p2, d2, 0).closes]
             : n \in 0..MaxShortCandles, p1 \in 1..MaxShortCandles,
               p2 \in 1..MaxShortCandles, d1 \in {-1, 0, 1}, d2 \in {-1, 0, 1} }
           \cup
           { [op |-> "prices", prices |-> SeriesOf(n, n - 1, d1, n, d2, 0).closes]
             : n \in MaxShortCandles..MaxRSICloses, d1 \in {-1, 0, 1},
               d2 \in {-1, 0, 1} }
           \cup
           { [op |-> "prices", prices |-> [j \in 1..n |-> NaN]]
             : n \in 0..MaxShortCandles }
           \cup
           { [op |-> "candles", candles |-> SeriesOf(n, n - 1, d1, n, d2, e)]
             : n \in 48..MaxLongCandles, d1 \in {-1, 0, 1}, d2 \in {-1, 0, 1},
               e \in {-6, 0, 6} }
           \cup
           { [op |-> "candles",
              candles |-> [ highs |-> [j \in 1..n |-> NaN],
                            lows |-> [j \in 1..n |-> NaN],
                            closes |-> [j \in 1..n |-> NaN] ]]
             : n \in 48..MaxLongCandles }
    /\ recorded = 0
    /\ forwarded = <<>>
    /\ ticks = 0

NextIndicators ==
    \/ /\ call.op = "prices"
       /\ call' = [op |-> "calculateRSI", prices |-> call.prices,
                   ret |-> calculateRSI(call.prices, 14)]
       /\ UNCHANGED <<decisionHistory, decisionWindow, arrivals, heap,
                      systemStatePresent, systemStateThrows, now, recorded,
                      forwarded, ticks>>
    \/ /\ call.op = "candles"
       /\ call' = [op |-> "calculateSTCCCI", candles |-> call.candles,
                   ret |-> calculateSTCCCI(call.candles.highs, call.candles.lows,
                                           call.candles.closes, 20)]
       /\ UNCHANGED <<decisionHistory, decisionWindow, arrivals, heap,
                      systemStatePresent, systemStateThrows, now, recorded,
                      forwarded, ticks>>

SpecIndicators == InitIndicators /\ [][NextIndicators]_vars

-----------------------------------------------------------------------------
(* The rolling window under a host that calls SystemState.recordDecision   *)
(* and reset directly: with complete payloads, payloads that leave every   *)
(* optional field out, payloads without success, and no payload at all.    *)

\* the n-th record offered since the last reset; every fifth one sets
\* nothing but success
WindowRecordAt(n) ==
    IF n % 5 = 0
    THEN [success |-> FALSE]
    ELSE [ timeframe |-> IF n % 2 = 0 THEN "1m" ELSE "5m",
           direction |-> IF n % 3 = 0 THEN "SELL" ELSE "BUY",
           success |-> n % 2 = 0,
           return |-> Rat(n % 4, 10),
           confidence |-> Num(70),
           timestamp |-> n ]

InitWindow ==
    /\ decisionHistory = <<>>
    /\ decisionWindow = <<>>
    /\ arrivals = <<>>
    /\ heap = InitialHeap
    /\ systemStatePresent = TRUE
    /\ systemStateThrows = FALSE
    /\ now = 0
    /\ call = [op |-> "init", ret |-> "undefined"]
    /\ recorded = 0
    /\ forwarded = <<>>
    /\ ticks = 0

NextWindow ==
    \/ /\ Len(arrivals) < MaxWindowRecords
       /\ SystemStateRecordDecision(WindowRecordAt(Len(arrivals) + 1))
    \/ \E data \in
           { Undefined,
             Null,
             [ timeframe |-> "1m", direction |-> "BUY", return |-> Num(1), confidence |-> Num(70), timestamp |-> 1 ] } :
           SystemStateRecordDecision(data)
    \/ SystemStateReset

SpecWindow == InitWindow /\ [][NextWindow]_vars

-----------------------------------------------------------------------------
(* The window metrics under a host that records outcomes of either kind in *)
(* any order, reads the snapshot and resets.                               *)

NextMetrics ==
    \/ /\ Len(arrivals) < MaxMetricsRecords
       /\ \E success \in BOOLEAN :
              SystemStateRecordDecision(
                  [ timeframe |-> "1m",
                    direction |-> IF success THEN "SELL" ELSE "BUY",
                    success |-> success,
                    return |-> IF success THEN Rat(-1, 2) ELSE Rat(-3, 10),
                    confidence |-> Num(70),
                    timestamp |-> Len(arrivals) + 1 ])
    \/ GetSnapshot
    \/ SystemStateReset

SpecMetrics == InitWindow /\ [][NextMetrics]_vars

-----------------------------------------------------------------------------
(* determineDirection on scores around every threshold, under the three    *)
(* modes, a mode that is no key of THRESHOLDS and one that is an inherited *)
(* key, with and without a backtestThreshold override, with and without    *)
(* the trend filter, in every trend.  The arguments are drawn at the       *)
(* start; the one step is the call.                                        *)

DirectionScores ==
    { Num(n) : n \in {-100, -51, -50, -41, -40, -26, -25, -11, -10, -6, -5, -1, 0,
                      1, 5, 6, 10, 11, 25, 26, 40, 41, 50, 51, 100} }
        \cup {Rat(21, 2), Rat(-81, 2)}

DirectionConfigs ==
    [ tradingMode : {"aggressive", "balanced", "conservative", "scalper",
                     "constructor"},
      backtestThreshold : {Undefined, NaN, PosInf, Num(-5), Num(0), Rat(1, 2),
                           Num(5), Num(30)},
      trendFilter : BOOLEAN,
      divergenceDetection : {FALSE} ]

InitDirection ==
    /\ decisionHistory = <<>>
    /\ decisionWindow = <<>>
    /\ arrivals = <<>>
    /\ heap = InitialHeap
    /\ systemStatePresent = TRUE
    /\ systemStateThrows = FALSE
    /\ now = 0
    /\ call \in [ op : {"input"}, totalScore : DirectionScores,
                 config : DirectionConfigs,
                 trend : {"uptrend", "downtrend", "sideways"} ]
    /\ recorded = 0
    /\ forwarded = <<>>
    /\ ticks = 0

DetermineDirection ==
    /\ call.op = "input"
    /\ call' = [ op |-> "determineDirection", totalScore |-> call.totalScore,
                 config |-> call.config, trend |-> call.trend,
                 ret |-> determineDirection(call.totalScore, call.config,
                                            [trend |-> [value |-> call.trend]]) ]
    /\ UNCHANGED <<decisionHistory, decisionWindow, arrivals, heap, systemStatePresent,
                   systemStateThrows, now, recorded, forwarded, ticks>>

SpecDirection == InitDirection /\ [][DetermineDirection]_vars

-----------------------------------------------------------------------------
(* The ledger under a host that records the analysis result it holds and   *)
(* goes on writing to that object afterwards: to a field of indicators, to *)
(* a field of the record nested in it, to a field of marketContext.        *)

\* payload.<path> = v, the path ending at a field of an object of the host
HostWrites(path, object, field, v) ==
    /\ heap' = [heap EXCEPT ![object][field] = v]
    /\ call' = [op |-> path, value |-> v, ret |-> "undefined"]
    /\ UNCHANGED <<decisionHistory, decisionWindow, arrivals, systemStatePresent,
                   systemStateThrows, now, recorded, forwarded, ticks>>

NextSnapshot ==
    \/ \E d \in
           [ direction : {"BUY"},
             confidence : {Num(70)},
             currentPrice : {1000},
             indicators : {Ref("indicators")},
             timeframe : {"1m"},
             marketContext : {Ref("marketContext")},
             evaluationHorizon : {Undefined} ] :
           recorded < MaxSnapshotRecords /\ RecordDecision(d)
    \/ \E v \in {Num(50), Num(99)} :
           HostWrites("indicators.rsi.value =", "rsi", "value", v)
    \/ \E v \in {Num(2), Num(3)} :
           HostWrites("indicators.atr =", "indicators", "atr", v)
    \/ \E v \in {Num(30), Num(-30)} :
           HostWrites("marketContext.totalScore =", "marketContext", "totalScore", v)

SpecSnapshot == Init /\ [][NextSnapshot]_vars

-----------------------------------------------------------------------------
(* Reading the history by recording order *)

BySerial(history, s) ==
    history[CHOOSE i \in 1..Len(history) : history[i].serial = s]

IsPrefix(a, b) == Len(a) <= Len(b) /\ a = SubSeq(b, 1, Len(a))

\* the statuses assigned to a decision during one step
Assigned(before, after) == SubSeq(after.trail, Len(before.trail) + 1, Len(after.trail))

-----------------------------------------------------------------------------
\* C2: the status of a decision only ever changes pending -> ready or
\* ready -> evaluated; no assignment goes from pending straight to evaluated,
\* and none goes back.  A new decision starts pending.
C2_Step ==
    /\ \A s \in Serials(decisionHistory') \ Serials(decisionHistory) :
          /\ BySerial(decisionHistory', s).status = "pending"
          /\ BySerial(decisionHistory', s).trail = <<"pending">>
    /\ \A s \in Serials(decisionHistory) \cap Serials(decisionHistory') :
          LET before == BySerial(decisionHistory, s)
              after == BySerial(decisionHistory', s)
          IN  /\ IsPrefix(before.trail, after.trail)
              /\ after.status = after.trail[Len(after.trail)]
              /\ before.status = before.trail[Len(before.trail)]
              /\ CASE before.status = "pending" ->
                        Assigned(before, after) \in
                            {<<>>, <<"ready">>, <<"ready", "evaluated">>}
                    [] before.status = "ready" ->
                        Assigned(before, after) \in {<<>>, <<"evaluated">>}
                    [] OTHER -> Assigned(before, after) = <<>>

C2_StatusOrder == [][C2_Step]_vars

C2_Witness ==
    /\ call.op = "evaluatePendingDecisions"
    /\ \E i \in 1..Len(decisionHistory) :
          /\ decisionHistory[i].trail = <<"pending", "ready", "evaluated">>
          /\ decisionHistory[i].evaluation.evaluatedAt = now
    /\ \E i \in 1..Len(decisionHistory) : decisionHistory[i].status = "pending"

\* C3: in every reachable state a decision of the history carries an
\* evaluation record exactly when its status is evaluated.
C3_EvaluationIffEvaluated ==
    \A i \in 1..Len(decisionHistory) :
        (decisionHistory[i].evaluation # NoEvaluation)
            <=> (decisionHistory[i].status = "evaluated")

C3_Witness ==
    /\ \E i \in 1..Len(decisionHistory) :
          /\ decisionHistory[i].status = "evaluated"
          /\ decisionHistory[i].evaluation # NoEvaluation
    /\ \E i \in 1..Len(decisionHistory) :
          /\ decisionHistory[i].status = "pending"
          /\ decisionHistory[i].evaluation = NoEvaluation

\* C4: evaluateDecision on a pending decision returns null and leaves the
\* whole history and the consumer's window as they were, whatever the price.
C4_Step ==
    (/\ call'.op = "evaluateDecision"
     /\ decisionHistory[call'.idx].status = "pending")
    => /\ call'.ret = "null"
       /\ decisionHistory' = decisionHistory
       /\ decisionWindow' = decisionWindow
       /\ forwarded' = forwarded

C4_PendingIsNoOp == [][C4_Step]_vars

C4_Witness ==
    /\ call.op = "evaluateDecision"
    /\ call.ret = "null"
    /\ decisionHistory[call.idx].status = "pending"
    /\ now - decisionHistory[call.idx].timestamp >= 180000
    /\ call.price # decisionHistory[call.idx].currentPrice

\* C5: an evaluated decision is never changed again by evaluateDecision,
\* evaluatePendingDecisions or recordDecision: status and evaluation record
\* stay as they are and no second record is forwarded for it.
C5_Step ==
    call'.op \in {"evaluateDecision", "evaluatePendingDecisions", "recordDecision"}
    => \A i \in 1..Len(decisionHistory) :
          decisionHistory[i].status = "evaluated"
          => /\ i <= Len(decisionHistory')
             /\ decisionHistory'[i] = decisionHistory[i]
             /\ forwarded'[decisionHistory[i].serial]
                    = forwarded[decisionHistory[i].serial]
             /\ forwarded[decisionHistory[i].serial] <= 1

C5_EvaluatedIsFrozen == [][C5_Step]_vars

C5_Witness ==
    /\ call.op = "evaluateDecision"
    /\ decisionHistory[call.idx].status = "evaluated"
    /\ decisionHistory[call.idx].evaluation.futurePrice # call.price
    /\ systemStatePresent
    /\ forwarded[decisionHistory[call.idx].serial] = 1

\* what "now - timestamp >= evaluationHorizon" means on the stored values
HorizonElapsed(decision, currentTime) ==
    /\ decision.evaluationHorizon.k = "num"
    /\ (currentTime - decision.timestamp) * decision.evaluationHorizon.d
           >= decision.evaluationHorizon.n

\* C6: at a poll, a pending decision leaves pending exactly when
\* now - timestamp >= evaluationHorizon (boundary included); it then passes
\* through ready and is evaluated in the same call, and otherwise it is left
\* untouched.  For a 1m decision 179999 ms is too early and 180000 ms is due.
C6_Step ==
    call'.op = "evaluatePendingDecisions"
    => \A i \in 1..Len(decisionHistory) :
          decisionHistory[i].status = "pending"
          => LET before == decisionHistory[i]
                 after == decisionHistory'[i]
             IN  /\ HorizonElapsed(before, now)
                       => /\ after.trail = <<"pending", "ready", "evaluated">>
                          /\ after.status = "evaluated"
                          /\ after.evaluation.evaluatedAt = now
                 /\ ~HorizonElapsed(before, now) => after = before
                 /\ (before.timeframe = "1m" /\ now - before.timestamp <= 179999)
                       => after.status = "pending"
                 /\ (before.timeframe = "1m" /\ now - before.timestamp >= 180000)
                       => after.status = "evaluated"

C6_ReadyIffHorizonElapsed == [][C6_Step]_vars

C6_Witness ==
    /\ call.op = "evaluatePendingDecisions"
    /\ \E i, j \in 1..Len(decisionHistory) :
          /\ now - decisionHistory[i].timestamp = 180000
          /\ decisionHistory[i].status = "evaluated"
          /\ decisionHistory[i].evaluation.evaluatedAt = now
          /\ now - decisionHistory[j].timestamp = 179999
          /\ decisionHistory[j].status = "pending"

\* C9: evaluatePendingDecisions(p) leaves no decision ready when it returns,
\* and every decision it evaluates (the ones already ready and the pending
\* ones whose horizon has elapsed) records futurePrice = p.
C9_Step ==
    call'.op = "evaluatePendingDecisions"
    => /\ Len(decisionHistory') = Len(decisionHistory)
       /\ \A i \in 1..Len(decisionHistory') :
             /\ decisionHistory'[i].status # "ready"
             /\ (decisionHistory[i].status # "evaluated"
                    /\ decisionHistory'[i].status = "evaluated")
                  => decisionHistory'[i].evaluation.futurePrice = call'.price
             /\ (\/ decisionHistory[i].status = "ready"
                 \/ /\ decisionHistory[i].status = "pending"
                    /\ HorizonElapsed(decisionHistory[i], now))
                  => /\ decisionHistory'[i].status = "evaluated"
                     /\ decisionHistory'[i].evaluation.futurePrice = call'.price

C9_BatchEvaluatesAllReady == [][C9_Step]_vars

C9_Witness ==
    /\ call.op = "evaluatePendingDecisions"
    /\ \E i, j \in 1..Len(decisionHistory) :
          /\ i < j
          /\ decisionHistory[i].direction # decisionHistory[j].direction
          /\ decisionHistory[i].status = "evaluated"
          /\ decisionHistory[j].status = "evaluated"
          /\ decisionHistory[i].evaluation.evaluatedAt = now
          /\ decisionHistory[j].evaluation.evaluatedAt = now
          /\ decisionHistory[i].evaluation.futurePrice = call.price
          /\ decisionHistory[j].evaluation.futurePrice = call.price

\* C1: after any sequence of recordDecision calls the history holds at most
\* 1000 entries, and they are the most recently recorded decisions (all of
\* them up to 1000, the last 1000 beyond), in recording order.
C1_HistoryIsLastThousand ==
    /\ Len(decisionHistory) <= 1000
    /\ Len(decisionHistory) = (IF recorded <= 1000 THEN recorded ELSE 1000)
    /\ \A i \in 1..Len(decisionHistory) :
          decisionHistory[i].serial = recorded - Len(decisionHistory) + i

C1_Witness ==
    /\ recorded = 1002
    /\ Len(decisionHistory) = 1000
    /\ decisionHistory[1].serial = 3
    /\ decisionHistory[1000].serial = 1002

\* C7: for an evaluated decision recorded at a positive price c and
\* evaluated at price f, with pct = (f - c) / c * 100: BUY is correct iff
\* pct > 0.1, incorrect iff pct < -0.1, else neutral; SELL is the mirror
\* image; NEUTRAL is always neutral.  pct = 0.1 and pct = -0.1 are neutral.
\* (pct > 0.1 is 1000 * (f - c) > c, and pct < -0.1 is 1000 * (f - c) < -c.)
C7_Classification ==
    \A i \in 1..Len(decisionHistory) :
        (decisionHistory[i].status = "evaluated" /\ decisionHistory[i].currentPrice > 0)
        => LET d == decisionHistory[i]
               c == d.currentPrice
               f == d.evaluation.futurePrice
               pct == d.evaluation.priceChange
               above == 1000 * (f - c) > c
               below == 1000 * (f - c) < -c
           IN  /\ pct.k = "num"
               /\ pct.n * c = (f - c) * 100 * pct.d
               /\ d.direction = "BUY" =>
                     /\ (d.evaluation.result = "correct") <=> above
                     /\ (d.evaluation.result = "incorrect") <=> below
                     /\ (d.evaluation.result = "neutral") <=> (~above /\ ~below)
               /\ d.direction = "SELL" =>
                     /\ (d.evaluation.result = "correct") <=> below
                     /\ (d.evaluation.result = "incorrect") <=> above
                     /\ (d.evaluation.result = "neutral") <=> (~above /\ ~below)
               /\ d.direction = "NEUTRAL" => d.evaluation.result = "neutral"

C7_Witness ==
    /\ call.op = "evaluatePendingDecisions"
    /\ Len(decisionHistory) = 1
    /\ decisionHistory[1].status = "evaluated"
    /\ decisionHistory[1].direction = "SELL"
    /\ decisionHistory[1].currentPrice = 1000
    /\ decisionHistory[1].evaluation.futurePrice = 1001
    /\ decisionHistory[1].evaluation.priceChange = Rat(1, 10)
    /\ decisionHistory[1].evaluation.result = "neutral"

\* the table of the claim, in ms
ClaimedTableMs(timeframe) ==
    CASE timeframe = "1m" -> 180000
      [] timeframe = "5m" -> 900000
      [] timeframe = "15m" -> 2700000
      [] timeframe = "1h" -> 10800000
      [] OTHER -> 300000

\* C8: the decision stored by recordDecision has evaluationHorizon equal to
\* the payload's override whenever a non-negative number is supplied, and
\* otherwise to the table value of its timeframe (300000 outside the table).
C8_HorizonAsClaimed ==
    call.op = "recordDecision"
    => LET stored == decisionHistory[Len(decisionHistory)].evaluationHorizon
           override == call.arg.evaluationHorizon
       IN  stored = IF override.k = "num" /\ override.n >= 0
                    THEN override
                    ELSE Num(ClaimedTableMs(call.arg.timeframe))

\* C8, override of 0 apart: the same statement for payloads whose override
\* is absent or positive and whose timeframe is not an inherited key.
C8_HorizonWhenTruthy ==
    (/\ call.op = "recordDecision"
     /\ call.arg.evaluationHorizon # Num(0)
     /\ call.arg.timeframe \notin InheritedKeys)
    => LET stored == decisionHistory[Len(decisionHistory)].evaluationHorizon
           override == call.arg.evaluationHorizon
       IN  stored = IF override.k = "num" /\ override.n > 0
                    THEN override
                    ELSE Num(ClaimedTableMs(call.arg.timeframe))

InHistory(s) == s \in Serials(decisionHistory)

PendingInHistory(s) == InHistory(s) /\ BySerial(decisionHistory, s).status = "pending"

ReachedReady(s) ==
    /\ InHistory(s)
    /\ \E n \in 1..Len(BySerial(decisionHistory, s).trail) :
          BySerial(decisionHistory, s).trail[n] = "ready"

FiniteHorizon(s) ==
    InHistory(s) /\ BySerial(decisionHistory, s).evaluationHorizon.k = "num"

\* C10 as stated: every recorded decision eventually reaches ready while the
\* clock advances and the host polls, and no step of the ledger removes a
\* decision that is still pending.
C10_NoWithdrawStep ==
    \A s \in Serials(decisionHistory) :
        PendingInHistory(s) => s \in Serials(decisionHistory')

C10_RemovalStep ==
    \A s \in Serials(decisionHistory) \ Serials(decisionHistory') :
        \/ call'.op = "clearHistory"
        \/ call'.op = "recordDecision" /\ Len(decisionHistory) = 1000

EvaluatedInStep ==
    {i \in 1..Len(decisionHistory) :
        /\ i <= Len(decisionHistory')
        /\ decisionHistory[i].status # "evaluated"
        /\ decisionHistory'[i].status = "evaluated"}

NthOf(S, n) == CHOOSE i \in S : Cardinality({j \in S : j < i}) = n - 1

\* C11: with the consumer present, an evaluateDecision or
\* evaluatePendingDecisions call passes to SystemState.recordDecision exactly
\* one record per decision it takes to evaluated, in order, carrying that
\* decision's timeframe, direction and confidence, return = its priceChange
\* and success = TRUE exactly when its result is 'correct'; the window grows
\* by these records; an evaluateDecision call that returns null passes none.
C11_Step ==
    /\ (call'.op \in {"evaluateDecision", "evaluatePendingDecisions"}
            /\ systemStatePresent)
       => /\ Len(call'.sent) = Cardinality(EvaluatedInStep)
          /\ Len(decisionWindow') = Len(decisionWindow) + Cardinality(EvaluatedInStep)
          /\ \A n \in 1..Len(call'.sent) :
                LET d == decisionHistory'[NthOf(EvaluatedInStep, n)]
                    r == call'.sent[n]
                    w == decisionWindow'[Len(decisionWindow) + n]
                IN  /\ r.timeframe = d.timeframe
                    /\ r.direction = d.direction
                    /\ r.confidence = d.confidence
                    /\ r.return = d.evaluation.priceChange
                    /\ r.success = (d.evaluation.result = "correct")
                    /\ d.evaluation.result \in {"incorrect", "neutral"}
                          => r.success = FALSE
                    /\ forwarded'[d.serial] = forwarded[d.serial] + 1
                    /\ forwarded'[d.serial] = 1
                    /\ w.success = r.success
                    /\ w.direction = r.direction
                    /\ w.timeframe = r.timeframe
    /\ (call'.op = "evaluateDecision" /\ call'.ret = "null")
       => /\ call'.sent = <<>>
          /\ decisionWindow' = decisionWindow
          /\ forwarded' = forwarded

C11_OneRecordPerEvaluation == [][C11_Step]_vars

C11_Witness ==
    /\ call.op = "evaluatePendingDecisions"
    /\ systemStatePresent
    /\ Len(call.sent) = 2
    /\ Len(decisionWindow) = 2
    /\ decisionHistory[1].evaluation.result = "incorrect"
    /\ decisionHistory[2].evaluation.result = "neutral"
    /\ ~call.sent[1].success
    /\ ~call.sent[2].success
    /\ call.sent[1].direction = "SELL"
    /\ call.sent[2].direction = "NEUTRAL"

\* the decisions a poll at time currentTime has to evaluate, by position
DueAt(history, currentTime) ==
    {i \in 1..Len(history) :
        \/ history[i].status = "ready"
        \/ history[i].status = "pending" /\ HorizonElapsed(history[i], currentTime)}

\* C12: whatever stands for the consumer (absent, the rolling window, or one
\* whose recordDecision ends in an exception), evaluateDecision on a ready
\* decision leaves it evaluated with its evaluation record attached, a poll
\* does so for the first decision that is due (for all of them unless the
\* consumer fails), and no later step takes an evaluated decision of the
\* history back: status and evaluation record stay as they are.
C12_Step ==
    /\ (call'.op = "evaluateDecision"
            /\ decisionHistory[call'.idx].status = "ready")
       => /\ decisionHistory'[call'.idx].status = "evaluated"
          /\ decisionHistory'[call'.idx].evaluation # NoEvaluation
          /\ decisionHistory'[call'.idx].evaluation.futurePrice = call'.price
          /\ decisionHistory'[call'.idx].evaluation.result =
                 Classify(decisionHistory[call'.idx].direction,
                          decisionHistory'[call'.idx].evaluation.priceChange)
    /\ (call'.op = "evaluatePendingDecisions")
       => \A i \in DueAt(decisionHistory, now) :
             ((\A j \in DueAt(decisionHistory, now) : i <= j) \/ ~ForwardThrows)
             => /\ decisionHistory'[i].status = "evaluated"
                /\ decisionHistory'[i].evaluation # NoEvaluation
                /\ decisionHistory'[i].evaluation.futurePrice = call'.price
    /\ \A s \in Serials(decisionHistory) \cap Serials(decisionHistory') :
          BySerial(decisionHistory, s).status = "evaluated"
          => BySerial(decisionHistory', s) = BySerial(decisionHistory, s)

C12_TransitionRegardlessOfConsumer == [][C12_Step]_vars

C12_Witness ==
    /\ systemStatePresent
    /\ systemStateThrows
    /\ call.op = "evaluateDecision"
    /\ call.ret = "throws"
    /\ decisionHistory[call.idx].status = "evaluated"
    /\ decisionHistory[call.idx].evaluation # NoEvaluation
    /\ decisionHistory[call.idx].evaluation.evaluatedAt = now
    /\ decisionHistory[call.idx].trail = <<"pending", "ready", "evaluated">>
    /\ decisionWindow = <<>>

\* the evaluated decisions of the history with a given result, and all of them
EvaluatedWith(result) ==
    {i \in 1..Len(decisionHistory) :
        /\ decisionHistory[i].status = "evaluated"
        /\ decisionHistory[i].evaluation.result = result}

EvaluatedNow == {i \in 1..Len(decisionHistory) : decisionHistory[i].status = "evaluated"}

\* x is the number p / q
IsFraction(x, p, q) == x.k = "num" /\ x.n * q = p * x.d

\* C13: with at least one evaluated decision in the history, the statistics
\* returned by getPerformanceStats have accuracy = 100 * correct / (correct +
\* incorrect), or 0 when there is no correct or incorrect one, and winRate =
\* 100 * correct / evaluated, counted over the evaluated decisions now in the
\* history; 3 BUY evaluated incorrect and 1 SELL evaluated correct give 25
\* and 25.
C13_AccuracyAndWinRate ==
    (call.op = "getPerformanceStats" /\ EvaluatedNow # {})
    => LET correct == Cardinality(EvaluatedWith("correct"))
           incorrect == Cardinality(EvaluatedWith("incorrect"))
           evaluated == Cardinality(EvaluatedNow)
       IN  /\ call.ret.correct = correct
           /\ call.ret.incorrect = incorrect
           /\ call.ret.evaluated = evaluated
           /\ IF correct + incorrect = 0
              THEN call.ret.accuracy = Num(0)
              ELSE IsFraction(call.ret.accuracy, 100 * correct, correct + incorrect)
           /\ IsFraction(call.ret.winRate, 100 * correct, evaluated)
           /\ (/\ evaluated = 4
               /\ \E s \in EvaluatedWith("correct") :
                     /\ decisionHistory[s].direction = "SELL"
                     /\ \A b \in EvaluatedNow \ {s} :
                           /\ decisionHistory[b].direction = "BUY"
                           /\ b \in EvaluatedWith("incorrect"))
              => /\ call.ret.accuracy = Num(25)
                 /\ call.ret.winRate = Num(25)

C13_Witness ==
    /\ call.op = "getPerformanceStats"
    /\ Len(decisionHistory) = 4
    /\ \A i \in 1..3 :
          /\ decisionHistory[i].direction = "BUY"
          /\ decisionHistory[i].status = "evaluated"
          /\ decisionHistory[i].evaluation.result = "incorrect"
    /\ decisionHistory[4].direction = "SELL"
    /\ decisionHistory[4].status = "evaluated"
    /\ decisionHistory[4].evaluation.result = "correct"
    /\ call.ret.accuracy = Num(25)
    /\ call.ret.winRate = Num(25)

\* C14 as stated: for every limit N >= 0, getDecisionHistory(N) returns the
\* min(N, length of the history) most recently recorded decisions, newest
\* first.
C14_MostRecentN ==
    (call.op = "getDecisionHistory" /\ call.limit.k = "num" /\ call.limit.n >= 0)
    => LET N == call.limit.n
           len == Len(decisionHistory)
       IN  /\ Len(call.ret) = (IF N < len THEN N ELSE len)
           /\ \A k \in 1..Len(call.ret) : call.ret[k] = decisionHistory[len - k + 1]

\* C14, limit 0 apart: the same statement for every limit N >= 1, and for a
\* call without a limit with N = 50.
C14_MostRecentPositiveN ==
    (call.op = "getDecisionHistory" /\ call.limit # Num(0))
    => LET N == IF call.limit.k = "undef" THEN 50 ELSE call.limit.n
           len == Len(decisionHistory)
       IN  /\ Len(call.ret) = (IF N < len THEN N ELSE len)
           /\ \A k \in 1..Len(call.ret) : call.ret[k] = decisionHistory[len - k + 1]

-----------------------------------------------------------------------------
(* analyzeMarket on short and empty candle series *)

\* the indicators hold the defaults of a series too short for any of them
NeutralDefaults(indicators) ==
    /\ indicators.rsi.value = Num(50)
    /\ indicators.macd.value = Num(0)
    /\ indicators.stochRsi.value = Num(50)
    /\ indicators.mfi.value = Num(50)
    /\ indicators.trend.value = "sideways"
    /\ indicators.divergence.value = "null"
    /\ indicators.occ.value = Num(0) /\ indicators.occ.signal = "NEUTRAL"
    /\ indicators.stcCci.value = Num(0) /\ indicators.stcCci.signal = "NEUTRAL"

\* the call returned a result with one of the three directions, and with
\* every indicator at its default when the series has at most one row
ReturnedAResult ==
    /\ call.ret.threw = "nothing"
    /\ call.ret.direction \in {"BUY", "SELL", "NEUTRAL"}
    /\ Len(call.marketData.klines) <= 1 => NeutralDefaults(call.ret.indicators)

\* C15: analyzeMarket never throws: for every candle series, those of 0 or
\* 1 rows included, it returns a result whose direction is BUY, SELL or
\* NEUTRAL, the indicators at their neutral defaults when the data is
\* insufficient.
C15_NeverThrows ==
    call.op = "analyzeMarket" => ReturnedAResult

\* C15, on series of at least one row: the call returns a result with one of
\* the three directions, and a one-row series yields the defaults.
C15_ReturnsOnNonEmpty ==
    (call.op = "analyzeMarket" /\ Len(call.marketData.klines) >= 1)
        => ReturnedAResult

\* a one-row series was analysed
C15_OneRowAnalysed ==
    /\ call.op = "analyzeMarket"
    /\ Len(call.marketData.klines) = 1
    /\ call.ret.threw = "nothing"
    /\ call.ret.direction = "NEUTRAL"

-----------------------------------------------------------------------------
(* SystemState.recordDecision and reset *)

C16_Step ==
    (call'.op = "SystemState.recordDecision" /\ InvalidPayload(call'.data))
        => decisionWindow' = decisionWindow

\* C16: SystemState.recordDecision called without a payload, or with a
\* payload whose success field is undefined, leaves the rolling window as it
\* was: the same entries in the same order.
C16_InvalidPayloadIsNoOp == [][C16_Step]_vars

\* a payload without success was offered to a window that holds entries
C16_Witness ==
    /\ call.op = "SystemState.recordDecision"
    /\ call.data \notin {Undefined, Null}
    /\ "success" \notin DOMAIN call.data
    /\ Len(decisionWindow) = 3

\* the last n elements of a sequence
LastOf(seq, n) == SubSeq(seq, Len(seq) - n + 1, Len(seq))

\* C17: after any sequence of SystemState.recordDecision and reset calls the
\* rolling window holds at most 50 entries, and they are the records
\* accepted most recently since the last reset (the last 50 of them, or all
\* when fewer), in arrival order; the 51st accepted record drops the oldest
\* entry only.
C17_WindowIsLastFifty ==
    /\ Len(decisionWindow) <= 50
    /\ decisionWindow =
           LastOf(arrivals, IF Len(arrivals) < 50 THEN Len(arrivals) ELSE 50)

\* the 51st record has just been accepted: the window holds the 2nd to the
\* 51st, the newest one with the defaults of a payload that set only success
C17_Witness ==
    /\ call.op = "SystemState.recordDecision"
    /\ Len(arrivals) = 51
    /\ Len(decisionWindow) = 50
    /\ decisionWindow[1] = arrivals[2]
    /\ decisionWindow[50] = arrivals[51]
    /\ decisionWindow[49].timeframe = "unknown"
    /\ decisionWindow[49].direction = "NEUTRAL"

-----------------------------------------------------------------------------
(* determineDirection: confidence and direction *)

ModeDefaults == {"aggressive", "balanced", "conservative"}

\* the configuration gives a threshold: a finite override, or one of the
\* three modes
ThresholdGiven(config) ==
    IsNum(config.backtestThreshold) \/ config.tradingMode \in ModeDefaults

\* the finite override if given, else the default of the mode
ThresholdOf(config) ==
    IF IsNum(config.backtestThreshold) THEN config.backtestThreshold
    ELSE CASE config.tradingMode = "aggressive" -> Num(10)
           [] config.tradingMode = "balanced" -> Num(25)
           [] config.tradingMode = "conservative" -> Num(40)

\* |n| of an integer
AbsInt(n) == IF n < 0 THEN -n ELSE n

\* min(100, |totalScore| / (2 * threshold) * 100) for a threshold > 0
ConfidenceOf(totalScore, threshold) ==
    LET ratio == Rat(AbsInt(totalScore.n) * threshold.d * 100,
                     totalScore.d * 2 * threshold.n)
    IN  IF ratio.n > 100 * ratio.d THEN Num(100) ELSE ratio

\* the same call with the trend filter switched the other way
WithOtherFilter ==
    determineDirection(call.totalScore,
                       [call.config EXCEPT !.trendFilter = ~@],
                       [trend |-> [value |-> call.trend]])

\* C18: for every finite totalScore and every threshold > 0 (the default of
\* the mode or a finite override) determineDirection returns a confidence
\* between 0 and 100, equal to min(100, |totalScore| / (2 * threshold) * 100),
\* and the same with the trend filter on as with it off.
C18_Confidence ==
    ( /\ call.op = "determineDirection"
      /\ IsNum(call.totalScore)
      /\ ThresholdGiven(call.config)
      /\ ThresholdOf(call.config).n > 0 )
    => /\ IsNum(call.ret.confidence)
       /\ call.ret.confidence.n >= 0
       /\ call.ret.confidence.n <= 100 * call.ret.confidence.d
       /\ call.ret.confidence = ConfidenceOf(call.totalScore, ThresholdOf(call.config))
       /\ WithOtherFilter.confidence = call.ret.confidence

\* the trend filter turned a BUY into NEUTRAL and the confidence stayed 82
C18_Witness ==
    /\ call.op = "determineDirection"
    /\ call.config.trendFilter
    /\ call.config.backtestThreshold = Undefined
    /\ call.config.tradingMode = "balanced"
    /\ call.totalScore = Num(41)
    /\ call.trend = "downtrend"
    /\ call.ret.direction = "NEUTRAL"
    /\ call.ret.confidence = Num(82)
    /\ WithOtherFilter.direction = "BUY"

\* totalScore > threshold and totalScore < -threshold, by cross-multiplication
ScoreAbove(totalScore, threshold) ==
    totalScore.n * threshold.d > threshold.n * totalScore.d
ScoreBelowMinus(totalScore, threshold) ==
    totalScore.n * threshold.d < (-threshold.n) * totalScore.d

\* the trend filter is on and stands against the direction
FilteredOut(direction) ==
    /\ call.config.trendFilter
    /\ \/ direction = "BUY" /\ call.trend = "downtrend"
       \/ direction = "SELL" /\ call.trend = "uptrend"

DirectionCase ==
    /\ call.op = "determineDirection"
    /\ IsNum(call.totalScore)
    /\ ThresholdGiven(call.config)

\* C19 as stated: the direction is BUY iff totalScore > threshold and SELL
\* iff totalScore < -threshold, the trend filter turning a BUY in a downtrend
\* and a SELL in an uptrend into NEUTRAL, and NEUTRAL otherwise.
C19_Original ==
    DirectionCase =>
        LET above == ScoreAbove(call.totalScore, ThresholdOf(call.config))
            below == ScoreBelowMinus(call.totalScore, ThresholdOf(call.config))
        IN  /\ call.ret.direction = "BUY" <=> (above /\ ~FilteredOut("BUY"))
            /\ call.ret.direction = "SELL" <=> (below /\ ~FilteredOut("SELL"))
            /\ call.ret.direction = "NEUTRAL"
                   <=> ~(above /\ ~FilteredOut("BUY")) /\ ~(below /\ ~FilteredOut("SELL"))

\* C19: with the threshold the finite override if given, else the default of
\* the mode, the direction is BUY if totalScore > threshold, otherwise SELL
\* if totalScore < -threshold, otherwise NEUTRAL (BUY comes first when a
\* negative override makes both hold); with the trend filter on, a BUY in a
\* downtrend and a SELL in an uptrend become NEUTRAL, so the result is never
\* BUY in a downtrend nor SELL in an uptrend.
C19_DirectionBuyFirst ==
    DirectionCase =>
        LET above == ScoreAbove(call.totalScore, ThresholdOf(call.config))
            below == ScoreBelowMinus(call.totalScore, ThresholdOf(call.config))
            byThreshold == IF above THEN "BUY" ELSE IF below THEN "SELL" ELSE "NEUTRAL"
        IN  /\ call.ret.direction =
                   IF FilteredOut(byThreshold) THEN "NEUTRAL" ELSE byThreshold
            /\ call.config.trendFilter /\ call.trend = "downtrend"
                   => call.ret.direction # "BUY"
            /\ call.config.trendFilter /\ call.trend = "uptrend"
                   => call.ret.direction # "SELL"

\* a negative override with a score between it and its opposite: BUY
C19_Witness ==
    /\ call.op = "determineDirection"
    /\ call.config.backtestThreshold = Num(-5)
    /\ call.totalScore = Num(0)
    /\ ~call.config.trendFilter
    /\ call.ret.direction = "BUY"

-----------------------------------------------------------------------------
(* The snapshot stored by recordDecision *)

\* an object as a reader sees it: every field that refers to another object
\* shows the fields that object has now
Resolved(object, objects) ==
    [ f \in DOMAIN object |->
        IF object[f].k = "ref" THEN objects[object[f].id] ELSE object[f] ]

\* decision.indicators and decision.marketContext as read from the history
StoredSnapshot(decision, objects) ==
    [ indicators |-> Resolved(decision.indicators, objects),
      marketContext |-> Resolved(decision.marketContext, objects) ]

\* every stored snapshot reads after the step as it read before
SnapshotsKept ==
    \A i \in 1..Len(decisionHistory) :
        StoredSnapshot(decisionHistory'[i], heap')
            = StoredSnapshot(decisionHistory[i], heap)

C20_Step ==
    call'.op \in {"indicators.rsi.value =", "indicators.atr =",
                  "marketContext.totalScore ="}
        => SnapshotsKept

\* C20: the stored decision holds deep copies of the payload's indicators
\* and marketContext: once recordDecision has returned, a write to the
\* payload's indicators object, to a record nested in it (indicators.rsi.value)
\* or to its marketContext does not change the snapshot in the history.
C20_SnapshotIsDeepCopy == [][C20_Step]_vars

C20_OwnFieldsStep ==
    call'.op \in {"indicators.atr =", "marketContext.totalScore ="}
        => SnapshotsKept

\* C20, for the fields the objects hold themselves: a write to a field of the
\* payload's indicators object or of its marketContext does not change the
\* snapshot in the history.
C20_OwnFieldsAreCopied == [][C20_OwnFieldsStep]_vars

-----------------------------------------------------------------------------
(* C21, C22: the error streaks of the window metrics *)

\* the number of entries at the end of the window whose success is false
RECURSIVE TrailingFailures(_)
TrailingFailures(window) ==
    IF Len(window) = 0 \/ window[Len(window)].success # FALSE THEN 0
    ELSE 1 + TrailingFailures(SubSeq(window, 1, Len(window) - 1))

\* the longest run of adjacent entries whose success is false
LongestFailureRun(window) ==
    LET runs == { <<a, b>> \in (DOMAIN window) \X (DOMAIN window) :
                    /\ a <= b
                    /\ \A i \in a..b : window[i].success = FALSE }
    IN  IF runs = {} THEN 0
        ELSE CHOOSE n \in 1..Len(window) :
                 /\ \E r \in runs : r[2] - r[1] + 1 = n
                 /\ \A r \in runs : r[2] - r[1] + 1 <= n

\* C21: maxConsecutiveErrors of the snapshot is the longest run of failed
\* records anywhere in the current window.
C21_MaxIsLongestRun ==
    updateMetrics(decisionWindow).maxConsecutiveErrors
        = LongestFailureRun(decisionWindow)

\* what the code computes: the loop stops at the first entry that is not a
\* failure, so max never differs from current
C21_MaxEqualsCurrent ==
    updateMetrics(decisionWindow).maxConsecutiveErrors
        = updateMetrics(decisionWindow).consecutiveErrors

C22_Step ==
    /\ updateMetrics(decisionWindow').consecutiveErrors
           = TrailingFailures(decisionWindow')
    /\ (call'.op = "SystemState.recordDecision" /\ call'.data.success = TRUE)
           => updateMetrics(decisionWindow').consecutiveErrors = 0
    /\ (/\ call'.op = "SystemState.recordDecision"
        /\ call'.data.success = FALSE
        /\ Len(decisionWindow) < WINDOW_SIZE)
           => updateMetrics(decisionWindow').consecutiveErrors
                  = updateMetrics(decisionWindow).consecutiveErrors + 1

\* C22: consecutiveErrors is the number of failed records at the end of the
\* window: 0 right after a successful record is accepted, one more after each
\* failed record accepted while the window is not full.
C22_ConsecutiveErrors == [][C22_Step]_vars

\* three failures, then a success (0), then two more failures
C22_Witness ==
    /\ Len(decisionWindow) = 6
    /\ [i \in 1..6 |-> decisionWindow[i].success]
           = <<FALSE, FALSE, FALSE, TRUE, FALSE, FALSE>>
    /\ updateMetrics(decisionWindow).consecutiveErrors = 2
    /\ call.op = "SystemState.getSnapshot"
    /\ call.ret.metrics.consecutiveErrors = 2

-----------------------------------------------------------------------------
(* C23: the counts of getPerformanceStats *)

StatsAddUp(stats, history) ==
    /\ stats.total = Len(history)
    /\ stats.total = stats.pending + stats.ready + stats.evaluated
    /\ stats.evaluated = stats.correct + stats.incorrect + stats.neutral

\* C23: in every reachable state getPerformanceStats reports total = history
\* length = pending + ready + evaluated and evaluated = correct + incorrect +
\* neutral, also when no decision has been evaluated yet.
C23_CountsAddUp ==
    StatsAddUp(getPerformanceStats(decisionHistory), decisionHistory)

\* what the code keeps: the counts add up once a decision has been evaluated,
\* and before that every count but total does
C23_CountsAddUpOnceEvaluated ==
    LET stats == getPerformanceStats(decisionHistory)
    IN  /\ stats.evaluated > 0 => StatsAddUp(stats, decisionHistory)
        /\ stats.evaluated = 0 =>
               /\ stats.total = 0
               /\ stats.pending + stats.ready = Len(decisionHistory)
               /\ stats.correct + stats.incorrect + stats.neutral = 0

-----------------------------------------------------------------------------
(* C24: recordDecision is all-or-nothing *)

\* the history has gained exactly one decision, made from the payload
GainedTheDecision ==
    /\ Len(decisionHistory') = Len(decisionHistory) + 1
    /\ SubSeq(decisionHistory', 1, Len(decisionHistory)) = decisionHistory
    /\ decisionHistory'[Len(decisionHistory')].confidence = call'.arg.confidence
    /\ decisionHistory'[Len(decisionHistory')].status = "pending"

C24_Step ==
    call'.op = "recordDecision" =>
        \/ call'.ret = "undefined" /\ GainedTheDecision
        \/ call'.ret # "undefined" /\ decisionHistory' = decisionHistory

\* C24: recordDecision either returns normally with the new decision appended
\* or fails and leaves the history unchanged; a payload without a numeric
\* confidence never leaves a decision appended by a call that threw.
C24_AllOrNothing == [][C24_Step]_vars

C24_AppendsStep ==
    call'.op = "recordDecision" =>
        \/ /\ call'.arg \in {Undefined, Null}
           /\ call'.ret = "TypeError"
           /\ decisionHistory' = decisionHistory
        \/ /\ call'.arg \notin {Undefined, Null}
           /\ GainedTheDecision
           /\ call'.ret = "undefined"
                  <=> call'.arg.confidence.k \in {"num", "nan", "inf", "ninf"}

\* what the code does: a call without a payload fails before anything is
\* stored; every other call appends the decision, and then fails in the log
\* line exactly when confidence is not a number
C24_AppendsBeforeItCanFail == [][C24_AppendsStep]_vars

-----------------------------------------------------------------------------
(* C25: the confidence ranges *)

\* the evaluated decisions the report examines with the default limit
Examined == getEvaluatedDecisions(getDecisionHistory(decisionHistory, Num(1000)))

\* the number of examined decisions whose confidence is finite, at least lo
\* and below hi, or equal to hi when closed
ConfidenceWithin(lo, hi, closed) ==
    Cardinality({i \in DOMAIN Examined :
                   /\ IsFinite(Examined[i].confidence)
                   /\ JsGe(Examined[i].confidence, Num(lo))
                   /\ \/ JsLt(Examined[i].confidence, Num(hi))
                      \/ closed /\ JsEq(Examined[i].confidence, Num(hi))})

NamedTotals(report) ==
    report[1].total + report[2].total + report[3].total + report[4].total

\* C25: every evaluated decision whose confidence is a finite number in
\* [0,100], 100 included, is counted in exactly one of the four named ranges
\* and never in 'unknown'; the bucket totals sum to the number examined.
C25_FiniteConfidenceIsRanged ==
    LET report == getPerformanceByConfidenceRange(decisionHistory, Undefined)
    IN  /\ NamedTotals(report) = ConfidenceWithin(0, 100, TRUE)
        /\ report[5].total = Len(Examined) - ConfidenceWithin(0, 100, TRUE)
        /\ NamedTotals(report) + report[5].total = Len(Examined)

\* what the code does: the ranges are half-open, so a confidence of exactly
\* 100 is counted under 'unknown'; the totals do sum to the number examined
C25_BelowHundredIsRanged ==
    LET report == getPerformanceByConfidenceRange(decisionHistory, Undefined)
    IN  /\ report[1].total = ConfidenceWithin(0, 40, FALSE)
        /\ report[2].total = ConfidenceWithin(40, 60, FALSE)
        /\ report[3].total = ConfidenceWithin(60, 80, FALSE)
        /\ report[4].total = ConfidenceWithin(80, 100, FALSE)
        /\ report[5].total = Len(Examined) - ConfidenceWithin(0, 100, FALSE)
        /\ NamedTotals(report) + report[5].total = Len(Examined)

-----------------------------------------------------------------------------
(* C26: calculateRSI on short series and on series without a loss *)

\* every price is a finite number and none is below the one before it
NoDownMove(prices) ==
    /\ \A j \in 1..Len(prices) : IsFinite(prices[j])
    /\ \A j \in 2..Len(prices) : JsGe(prices[j], prices[j - 1])

\* C26: calculateRSI(prices, 14) returns 50 for every series of fewer than 15
\* closes, and exactly 100 for every series of at least 15 closes whose
\* avgLoss ends at 0: every flat series and every series with no down move,
\* whatever its length.
C26_FiftyOrHundred ==
    call.op = "calculateRSI" =>
        /\ Len(call.prices) < 15 => call.ret = Num(50)
        /\ (Len(call.prices) >= 15 /\ NoDownMove(call.prices))
               => call.ret = Num(100)
        /\ (/\ Len(call.prices) >= 15
            /\ JsEq(RSISmooth(call.prices, 14, Len(call.prices) - 1).avgLoss, Num(0)))
               => call.ret = Num(100)

\* a flat series of more than 15 closes has been given 100
C26_Witness ==
    /\ call.op = "calculateRSI"
    /\ Len(call.prices) > 15
    /\ \A j \in 1..Len(call.prices) : call.prices[j] = Num(10)
    /\ call.ret = Num(100)

-----------------------------------------------------------------------------
(* C27: the votes of calculateSTCCCI *)

\* the number of bullish votes among STC > 50, CCI > 0 and the percentage
\* change of the close over the last five candles > 0
BullishVotes(candles) ==
    (IF JsGt(calculateSchaffTrendCycle(candles.closes, 23, 50, 10), Num(50))
     THEN 1 ELSE 0)
    + (IF JsGt(calculateCCI(candles.highs, candles.lows, candles.closes, 20), Num(0))
       THEN 1 ELSE 0)
    + (IF JsGt(JsMul(JsDiv(JsSub(candles.closes[Len(candles.closes)],
                                 candles.closes[Len(candles.closes) - 4]),
                           candles.closes[Len(candles.closes) - 4]),
                     Num(100)), Num(0))
       THEN 1 ELSE 0)

\* C27: calculateSTCCCI returns the neutral zero record iff fewer than 50
\* closes are supplied; with 50 or more the signal is BUY with value +30 iff
\* at least two of the three votes are bullish, and SELL with value -30
\* otherwise.
C27_NeutralOrVoted ==
    call.op = "calculateSTCCCI" =>
        IF Len(call.candles.closes) < 50
        THEN call.ret = [value |-> Num(0), signal |-> "NEUTRAL", strength |-> Num(0)]
        ELSE IF BullishVotes(call.candles) >= 2
             THEN call.ret.signal = "BUY" /\ call.ret.value = Num(30)
             ELSE call.ret.signal = "SELL" /\ call.ret.value = Num(-30)

\* BUY on exactly two votes, STC and CCI, while the close has not risen over
\* the last five candles
C27_Witness ==
    /\ call.op = "calculateSTCCCI"
    /\ Len(call.candles.closes) >= 60
    /\ JsGt(call.ret.stc, Num(50))
    /\ JsGt(call.ret.cci, Num(0))
    /\ ~JsGt(call.ret.priceChange, Num(0))
    /\ BullishVotes(call.candles) = 2
    /\ call.ret.signal = "BUY"

=============================================================================
